---- MODULE Spec2Model ----
(***************************************************************************)
(* Model of the arXiv ETL pipeline of deeo-ai: the deduplication service   *)
(* (find_duplicate / should_update / merge_publications), the orchestrator *)
(* (ArxivPipeline.run / _process_paper / load / _handle_authors /          *)
(* _handle_themes) and the SQLAlchemy session the two share.               *)
(*                                                                         *)
(* Text values (titles, abstracts, names) are sequences of one-character   *)
(* strings; identifiers (DOI, arXiv id, url, labels) are strings.          *)
(***************************************************************************)
EXTENDS Integers, Sequences, FiniteSets, TLC

(***************************************************************************)
(* Python values                                                           *)
(***************************************************************************)
\* Python None in a string-valued field.
None == "None"
\* Python None in a text-valued (character sequence) field.
NoneText == <<None>>

\* bool(x) of an Optional[str] held as a string.
Truthy(v) == v # None /\ v # ""
\* bool(x) of an Optional[str] held as a character sequence.
TruthyText(t) == t # NoneText /\ t # <<>>

UpperCase == <<"A","B","C","D","E","F","G","H","I","J","K","L","M",
               "N","O","P","Q","R","S","T","U","V","W","X","Y","Z">>
LowerCase == <<"a","b","c","d","e","f","g","h","i","j","k","l","m",
               "n","o","p","q","r","s","t","u","v","w","x","y","z">>
Whitespace == {" ", "\t", "\n", "\r", "\f"}

\* str.lower() on one character.
LowerChar(c) ==
    IF \E i \in 1..Len(UpperCase) : UpperCase[i] = c
    THEN LowerCase[CHOOSE i \in 1..Len(UpperCase) : UpperCase[i] = c]
    ELSE c

\* str.lower()
Lower(t) == [i \in 1..Len(t) |-> LowerChar(t[i])]

\* str.strip(): drops leading and trailing whitespace.
Strip(t) ==
    LET idx == {i \in 1..Len(t) : t[i] \notin Whitespace}
    IN IF idx = {} THEN <<>>
       ELSE LET lo == CHOOSE i \in idx : \A j \in idx : i <= j
                hi == CHOOSE i \in idx : \A j \in idx : i >= j
            IN SubSeq(t, lo, hi)

(***************************************************************************)
(* difflib.SequenceMatcher(None, a, b).ratio() for sequences shorter than  *)
(* the autojunk limit of 200: 2*M/T, M the total size of the matching      *)
(* blocks found by recursive longest-match splitting.                      *)
(***************************************************************************)
RECURSIVE MatchLen(_, _, _, _, _, _)
\* length of the common run of a[i..ahi] and b[j..bhi] starting at i, j
MatchLen(a, b, i, j, ahi, bhi) ==
    IF i > ahi \/ j > bhi \/ a[i] # b[j] THEN 0
    ELSE 1 + MatchLen(a, b, i + 1, j + 1, ahi, bhi)

\* find_longest_match(alo, ahi, blo, bhi) with inclusive 1-based bounds:
\* the longest block, earliest in a, then earliest in b; <<alo, blo, 0>> if none.
FindLongestMatch(a, b, alo, ahi, blo, bhi) ==
    LET cand == {<<i, j, MatchLen(a, b, i, j, ahi, bhi)>> : i \in alo..ahi, j \in blo..bhi}
        pos  == {c \in cand : c[3] > 0}
    IN IF pos = {} THEN <<alo, blo, 0>>
       ELSE CHOOSE c \in pos : \A d \in pos :
                \/ c[3] > d[3]
                \/ c[3] = d[3] /\ c[1] < d[1]
                \/ c[3] = d[3] /\ c[1] = d[1] /\ c[2] <= d[2]

RECURSIVE MatchingSize(_, _, _, _, _, _)
\* the block m = <<i, j, k>> plus the blocks to its left and to its right
MatchingAround(a, b, alo, ahi, blo, bhi, m) ==
    IF m[3] = 0 THEN 0
    ELSE m[3]
         + MatchingSize(a, b, alo, m[1] - 1, blo, m[2] - 1)
         + MatchingSize(a, b, m[1] + m[3], ahi, m[2] + m[3], bhi)

\* sum of the sizes of get_matching_blocks() within a[alo..ahi], b[blo..bhi]
MatchingSize(a, b, alo, ahi, blo, bhi) ==
    IF alo > ahi \/ blo > bhi THEN 0
    ELSE MatchingAround(a, b, alo, ahi, blo, bhi,
                        FindLongestMatch(a, b, alo, ahi, blo, bhi))

\* ratio() as the exact fraction <<numerator, denominator>>; 1.0 when both empty.
Ratio(a, b) ==
    IF Len(a) + Len(b) = 0 THEN <<1, 1>>
    ELSE <<2 * MatchingSize(a, b, 1, Len(a), 1, Len(b)), Len(a) + Len(b)>>

\* comparisons of exact fractions with positive denominators
FracGT(x, y) == x[1] * y[2] > y[1] * x[2]
FracGE(x, y) == x[1] * y[2] >= y[1] * x[2]

(***************************************************************************)
(* Rows.  A publication row carries the fields the pipeline reads or       *)
(* writes; its id is its position in the table (rows are never deleted by  *)
(* the pipeline).                                                          *)
(***************************************************************************)
Pub(titre, abstract, doi, arxiv_id, url, cit) ==
    [titre |-> titre, abstract |-> abstract, doi |-> doi,
     arxiv_id |-> arxiv_id, url |-> url, nombre_citations |-> cit]

\* title_similarity_threshold, as an exact fraction
title_similarity_threshold == <<95, 100>>

(***************************************************************************)
(* DeduplicationService, the parts without session effects.  pubs is the   *)
(* publication table as the session's SELECT sees it.                      *)
(***************************************************************************)
\* result.scalar_one_or_none(): the id, 0 for no row, -1 for MultipleResultsFound
ScalarOneOrNone(ids) ==
    IF ids = {} THEN 0
    ELSE IF Cardinality(ids) = 1 THEN CHOOSE i \in ids : TRUE
    ELSE -1

_find_by_doi(pubs, doi) ==
    ScalarOneOrNone({i \in 1..Len(pubs) : pubs[i].doi = doi})

_find_by_arxiv_id(pubs, arxiv_id) ==
    ScalarOneOrNone({i \in 1..Len(pubs) : pubs[i].arxiv_id = arxiv_id})

_calculate_similarity(text1, text2) ==
    Ratio(Strip(Lower(text1)), Strip(Lower(text2)))

RECURSIVE BestMatch(_, _, _, _, _)
\* one row of the loop, similarity being its similarity to titre
BestMatchRow(pubs, titre, i, best_match, best_similarity, similarity) ==
    IF FracGT(similarity, best_similarity)
    THEN BestMatch(pubs, titre, i + 1, i, similarity)
    ELSE BestMatch(pubs, titre, i + 1, best_match, best_similarity)

\* the loop of _find_by_title_similarity from row i on: <<best_match, best_similarity>>
BestMatch(pubs, titre, i, best_match, best_similarity) ==
    IF i > Len(pubs) THEN <<best_match, best_similarity>>
    ELSE IF TruthyText(pubs[i].titre)
         THEN BestMatchRow(pubs, titre, i, best_match, best_similarity,
                           _calculate_similarity(titre, pubs[i].titre))
         ELSE BestMatch(pubs, titre, i + 1, best_match, best_similarity)

\* "Return if above threshold"
ReturnBestMatch(best) == best[1]
AboveThreshold(best) ==
    IF FracGE(best[2], title_similarity_threshold) THEN best[1] ELSE 0

_find_by_title_similarity(pubs, titre) ==
    AboveThreshold(BestMatch(pubs, titre, 1, 0, <<0, 1>>))

\* find_duplicate, a tier at a time.  A result is <<tier, id>>: the id of the
\* existing row (-1 when the lookup raises MultipleResultsFound) and the strategy
\* that found it; <<"none", 0>> for None.
Strategy3(pubs, data, duplicate) ==
    IF duplicate # 0 THEN <<"titre", duplicate>> ELSE <<"none", 0>>

Strategy2(pubs, data, duplicate) ==
    IF duplicate # 0 THEN <<"arxiv_id", duplicate>>
    ELSE IF TruthyText(data.titre)
         THEN Strategy3(pubs, data, _find_by_title_similarity(pubs, data.titre))
         ELSE <<"none", 0>>

Strategy1(pubs, data, duplicate) ==
    IF duplicate # 0 THEN <<"doi", duplicate>>
    ELSE IF Truthy(data.arxiv_id)
         THEN Strategy2(pubs, data, _find_by_arxiv_id(pubs, data.arxiv_id))
         ELSE Strategy2(pubs, data, 0)

\* a find_duplicate that asks for the arXiv id before the DOI
FindDuplicateArxivFirst(pubs, data) ==
    LET byArxiv == IF Truthy(data.arxiv_id) THEN _find_by_arxiv_id(pubs, data.arxiv_id)
                   ELSE 0
        byDoi == IF Truthy(data.doi) THEN _find_by_doi(pubs, data.doi) ELSE 0
    IN IF byArxiv # 0 THEN <<"arxiv_id", byArxiv>>
       ELSE IF byDoi # 0 THEN <<"doi", byDoi>>
       ELSE Strategy2(pubs, data, 0)

FindDuplicateTier(pubs, data) ==
    IF Truthy(data.doi) THEN Strategy1(pubs, data, _find_by_doi(pubs, data.doi))
    ELSE Strategy1(pubs, data, 0)

\* find_duplicate: the id of the existing row, 0 for None, -1 when it raises
find_duplicate(pubs, data) == FindDuplicateTier(pubs, data)[2]

\* the reasons list of should_update
UpdateReasons(existing, new_data) ==
    (IF new_data.nombre_citations > existing.nombre_citations THEN {"more_citations"} ELSE {})
    \cup (IF TruthyText(new_data.abstract) /\ ~TruthyText(existing.abstract)
          THEN {"has_abstract"} ELSE {})
    \cup (IF Truthy(new_data.doi) /\ ~Truthy(existing.doi) THEN {"has_doi"} ELSE {})
    \cup (IF Truthy(new_data.arxiv_id) /\ ~Truthy(existing.arxiv_id)
          THEN {"has_arxiv_id"} ELSE {})

\* a should_update that takes an equal citation count for a reason
ShouldUpdateOnEqualCitations(existing, new_data) ==
    UpdateReasons(existing, new_data) # {}
    \/ new_data.nombre_citations >= existing.nombre_citations

should_update(existing, new_data) == UpdateReasons(existing, new_data) # {}

\* a merge that takes the candidate's abstract whenever the candidate has one
MergeFieldsOverwritingAbstract(existing, new_data) ==
    [existing EXCEPT
        !.abstract = IF TruthyText(new_data.abstract) THEN new_data.abstract ELSE @,
        !.doi = IF ~Truthy(existing.doi) /\ Truthy(new_data.doi) THEN new_data.doi ELSE @,
        !.arxiv_id = IF ~Truthy(existing.arxiv_id) /\ Truthy(new_data.arxiv_id)
                     THEN new_data.arxiv_id ELSE @,
        !.url = IF ~Truthy(existing.url) /\ Truthy(new_data.url) THEN new_data.url ELSE @,
        !.nombre_citations = IF new_data.nombre_citations > existing.nombre_citations
                             THEN new_data.nombre_citations ELSE @]

\* the attribute assignments of merge_publications (before its commit)
MergeFields(existing, new_data) ==
    [existing EXCEPT
        !.abstract = IF ~TruthyText(existing.abstract) /\ TruthyText(new_data.abstract)
                     THEN new_data.abstract ELSE @,
        !.doi = IF ~Truthy(existing.doi) /\ Truthy(new_data.doi) THEN new_data.doi ELSE @,
        !.arxiv_id = IF ~Truthy(existing.arxiv_id) /\ Truthy(new_data.arxiv_id)
                     THEN new_data.arxiv_id ELSE @,
        !.url = IF ~Truthy(existing.url) /\ Truthy(new_data.url) THEN new_data.url ELSE @,
        !.nombre_citations = IF new_data.nombre_citations > existing.nombre_citations
                             THEN new_data.nombre_citations ELSE @]

(***************************************************************************)
(* ORM classes: the attribute names of the mapped classes.  The default    *)
(* declarative constructor called with keywords raises TypeError for one   *)
(* that is no attribute of the class.                                      *)
(***************************************************************************)
PublicationAttrs ==
    {"id", "created_at", "updated_at", "titre", "abstract", "doi", "arxiv_id", "url",
     "date_publication", "type_publication", "status", "language", "source_nom",
     "evenement_id", "nombre_citations", "nombre_auteurs", "score_popularite",
     "search_vector", "evenement", "auteurs", "themes", "technologies", "datasets",
     "outils", "citations_sources", "citations_cibles", "impacts", "metriques"}

AuteurAttrs ==
    {"id", "created_at", "updated_at", "nom", "prenom", "email", "orcid",
     "google_scholar_id", "semantic_scholar_id", "homepage_url", "h_index",
     "nombre_publications", "nombre_citations", "publications", "publications_list",
     "affiliations", "collaborations"}

(***************************************************************************)
(* The database and the session.  A database is the five tables the        *)
(* pipeline touches.  A session value s is                                 *)
(*   s.tx    the tables as the open transaction sees them (flushed rows)   *)
(*   s.pend  association objects added with db.add() and not yet flushed   *)
(*   s.com   the committed tables                                          *)
(*   s.sess  "active", or "inactive" after a failed flush (every later     *)
(*           statement raises until rollback(), which the pipeline never   *)
(*           calls)                                                        *)
(*   s.stats the ArxivPipelineStats counters                               *)
(*   s.exc   the exception in flight, "" for none                          *)
(***************************************************************************)
Database(pubs, auteurs, themes, pa, pt) ==
    [pubs |-> pubs, auteurs |-> auteurs, themes |-> themes, pa |-> pa, pt |-> pt]

\* a doi column without its unique constraint
DoiNotUnique(pubs) == TRUE

\* Publication.doi: unique=True
UniqueDoi(pubs) ==
    \A i, j \in 1..Len(pubs) :
        (i # j /\ pubs[i].doi # None) => pubs[i].doi # pubs[j].doi

\* publication_auteur: primary key (publication_id, auteur_id),
\* UniqueConstraint(publication_id, ordre)
PublicationAuteurConflict(pa, r) ==
    \E x \in pa : x.publication_id = r.publication_id
                  /\ (x.auteur_id = r.auteur_id \/ x.ordre = r.ordre)

\* publication_theme: primary key (publication_id, theme_id)
PublicationThemeConflict(pt, r) ==
    \E x \in pt : x.publication_id = r.publication_id /\ x.theme_id = r.theme_id

RECURSIVE InsertRows(_, _)
\* INSERT of the pending association objects; ok = FALSE on a constraint violation
InsertRows(db, pend) ==
    IF pend = <<>> THEN [ok |-> TRUE, db |-> db]
    ELSE LET r == Head(pend)
         IN IF r.kind = "publication_auteur"
            THEN IF PublicationAuteurConflict(db.pa, r.row)
                 THEN [ok |-> FALSE, db |-> db]
                 ELSE InsertRows([db EXCEPT !.pa = @ \cup {r.row}], Tail(pend))
            ELSE IF PublicationThemeConflict(db.pt, r.row)
                 THEN [ok |-> FALSE, db |-> db]
                 ELSE InsertRows([db EXCEPT !.pt = @ \cup {r.row}], Tail(pend))

Raise(s, e) == [s EXCEPT !.exc = e]

\* Session.flush(): tx2 is s.tx with the new and dirty objects of the caller
\* applied.  A failing flush rolls the transaction back and leaves the session
\* inactive.
Flush(s, tx2) ==
    IF s.sess = "inactive" THEN Raise(s, "PendingRollbackError")
    ELSE LET r == InsertRows(tx2, s.pend)
         IN IF UniqueDoi(tx2.pubs) /\ r.ok
            THEN [s EXCEPT !.tx = r.db, !.pend = <<>>]
            ELSE [s EXCEPT !.tx = s.com, !.pend = <<>>, !.sess = "inactive",
                           !.exc = "IntegrityError"]

\* the COMMIT after commit()'s flush
CommitFlushed(f) == IF f.exc # "" THEN f ELSE [f EXCEPT !.com = f.tx]

\* Session.commit(): flush, then make the transaction's rows durable
Commit(s, tx2) == CommitFlushed(Flush(s, tx2))

\* Session.execute(select ...): autoflush before the query
Execute(s) == Flush(s, s.tx)

\* Session.rollback(): the transaction's rows and the unflushed objects are dropped
Rollback(s) == [s EXCEPT !.tx = s.com, !.pend = <<>>, !.sess = "active"]

\* db.add(obj) of an association object
Add(s, kind, row) == [s EXCEPT !.pend = Append(@, [kind |-> kind, row |-> row])]

Bump(s, counter) == [s EXCEPT !.stats[counter] = @ + 1]

(***************************************************************************)
(* arxiv_mappers: ArxivToPublicationMapper, ArxivToAuteurMapper,           *)
(* ArxivCategoryMapper.                                                    *)
(***************************************************************************)
RECURSIVE SplitWhitespace(_)
\* str.split(): the maximal runs of non-whitespace characters
SplitWhitespace(t) ==
    LET idx == {i \in 1..Len(t) : t[i] \notin Whitespace}
    IN IF idx = {} THEN <<>>
       ELSE LET lo == CHOOSE i \in idx : \A j \in idx : i <= j
                ws == {i \in lo..Len(t) : t[i] \in Whitespace}
                hi == IF ws = {} THEN Len(t) + 1
                      ELSE CHOOSE i \in ws : \A j \in ws : i <= j
            IN <<SubSeq(t, lo, hi - 1)>> \o SplitWhitespace(SubSeq(t, hi, Len(t)))

RECURSIVE JoinSpace(_)
\* ' '.join(parts)
JoinSpace(parts) ==
    IF parts = <<>> THEN <<>>
    ELSE IF Len(parts) = 1 THEN parts[1]
    ELSE parts[1] \o <<" ">> \o JoinSpace(Tail(parts))

\* ArxivToAuteurMapper._parse_name: <<prenom, nom>>, or <<"IndexError">> when
\* parts[-1] is taken of an empty list
_parse_name(full_name) ==
    IF full_name = <<>> THEN << <<>>, <<>> >>
    ELSE LET parts == SplitWhitespace(full_name)
         IN IF Len(parts) = 1 THEN << <<>>, parts[1] >>
            ELSE IF Len(parts) = 0 THEN <<"IndexError">>
            ELSE << JoinSpace(SubSeq(parts, 1, Len(parts) - 1)), parts[Len(parts)] >>

\* the keys of the dict ArxivToAuteurMapper.map returns
MapperAuteurKeys == {"nom", "prenom", "email", "affiliations", "h_index", "url_profile"}

\* ArxivToAuteurMapper.map
MapAuteur(author) ==
    LET parsed == _parse_name(Strip(author.name))
    IN [nom |-> parsed[2], prenom |-> parsed[1], keys |-> MapperAuteurKeys]

RECURSIVE map_authors(_)
\* ArxivToAuteurMapper.map_authors: authors without a name are left out
map_authors(authors) ==
    IF authors = <<>> THEN <<>>
    ELSE (IF TruthyText(Head(authors).name) THEN <<MapAuteur(Head(authors))>> ELSE <<>>)
         \o map_authors(Tail(authors))

CATEGORY_MAPPING ==
    [c \in {"cs.AI", "cs.LG", "cs.CV", "cs.CL", "cs.NE", "stat.ML", "cs.RO", "cs.IR",
            "cs.HC", "cs.CR"} |->
        CASE c = "cs.AI"   -> "Artificial Intelligence"
          [] c = "cs.LG"   -> "Machine Learning"
          [] c = "cs.CV"   -> "Computer Vision"
          [] c = "cs.CL"   -> "Natural Language Processing"
          [] c = "cs.NE"   -> "Neural Networks"
          [] c = "stat.ML" -> "Statistical Machine Learning"
          [] c = "cs.RO"   -> "Robotics"
          [] c = "cs.IR"   -> "Information Retrieval"
          [] c = "cs.HC"   -> "Human-Computer Interaction"
          [] c = "cs.CR"   -> "Cryptography and Security"]

\* THEME_KEYWORDS in the order of the dict
THEME_KEYWORDS ==
    <<
      [theme |-> "Artificial Intelligence",
       keywords |-> {<<"a","i">>,
                     <<"a","r","t","i","f","i","c","i","a","l"," ","i","n","t","e","l","l","i","g","e","n","c","e">>,
                     <<"i","n","t","e","l","l","i","g","e","n","t"," ","s","y","s","t","e","m","s">>}],
      [theme |-> "Machine Learning",
       keywords |-> {<<"m","a","c","h","i","n","e"," ","l","e","a","r","n","i","n","g">>,
                     <<"m","l">>,
                     <<"s","u","p","e","r","v","i","s","e","d">>,
                     <<"u","n","s","u","p","e","r","v","i","s","e","d">>}],
      [theme |-> "Computer Vision",
       keywords |-> {<<"v","i","s","i","o","n">>,
                     <<"i","m","a","g","e">>,
                     <<"v","i","s","u","a","l">>,
                     <<"o","b","j","e","c","t"," ","d","e","t","e","c","t","i","o","n">>}],
      [theme |-> "Natural Language Processing",
       keywords |-> {<<"n","l","p">>,
                     <<"l","a","n","g","u","a","g","e">>,
                     <<"t","e","x","t">>,
                     <<"l","i","n","g","u","i","s","t","i","c">>}],
      [theme |-> "Neural Networks",
       keywords |-> {<<"n","e","u","r","a","l">>,
                     <<"d","e","e","p"," ","l","e","a","r","n","i","n","g">>,
                     <<"c","n","n">>,
                     <<"r","n","n">>,
                     <<"t","r","a","n","s","f","o","r","m","e","r">>}],
      [theme |-> "Statistical Machine Learning",
       keywords |-> {<<"s","t","a","t","i","s","t","i","c","s">>,
                     <<"p","r","o","b","a","b","i","l","i","s","t","i","c">>,
                     <<"b","a","y","e","s","i","a","n">>}],
      [theme |-> "Robotics",
       keywords |-> {<<"r","o","b","o","t">>,
                     <<"r","o","b","o","t","i","c","s">>,
                     <<"a","u","t","o","n","o","m","o","u","s">>}],
      [theme |-> "Information Retrieval",
       keywords |-> {<<"s","e","a","r","c","h">>,
                     <<"r","e","t","r","i","e","v","a","l">>,
                     <<"r","a","n","k","i","n","g">>}],
      [theme |-> "Human-Computer Interaction",
       keywords |-> {<<"h","c","i">>,
                     <<"i","n","t","e","r","a","c","t","i","o","n">>,
                     <<"u","s","e","r"," ","i","n","t","e","r","f","a","c","e">>}],
      [theme |-> "Cryptography and Security",
       keywords |-> {<<"s","e","c","u","r","i","t","y">>,
                     <<"c","r","y","p","t","o","g","r","a","p","h","y">>,
                     <<"p","r","i","v","a","c","y">>}]
    >>

InSeq(x, seq) == \E i \in 1..Len(seq) : seq[i] = x

RECURSIVE MapCategoriesFrom(_, _)
\* the loop of map_categories with the themes found so far
MapCategoriesFrom(categories, themes) ==
    IF categories = <<>> THEN themes
    ELSE LET c == Head(categories)
         IN IF c \in DOMAIN CATEGORY_MAPPING /\ ~InSeq(CATEGORY_MAPPING[c], themes)
            THEN MapCategoriesFrom(Tail(categories), Append(themes, CATEGORY_MAPPING[c]))
            ELSE MapCategoriesFrom(Tail(categories), themes)

RECURSIVE MapCategoriesKeepingDuplicates(_)
\* map_categories without "theme not in themes"
MapCategoriesKeepingDuplicates(categories) ==
    IF categories = <<>> THEN <<>>
    ELSE (IF Head(categories) \in DOMAIN CATEGORY_MAPPING
          THEN <<CATEGORY_MAPPING[Head(categories)]>> ELSE <<>>)
         \o MapCategoriesKeepingDuplicates(Tail(categories))

map_categories(categories) == MapCategoriesFrom(categories, <<>>)

\* keyword in text_lower
Contains(text, kw) ==
    \E i \in 1..(Len(text) - Len(kw) + 1) : SubSeq(text, i, i + Len(kw) - 1) = kw

RECURSIVE ExtractThemesFrom(_, _, _)
ExtractThemesFrom(text_lower, i, matching) ==
    IF i > Len(THEME_KEYWORDS) THEN matching
    ELSE IF (\E kw \in THEME_KEYWORDS[i].keywords : Contains(text_lower, kw))
            /\ ~InSeq(THEME_KEYWORDS[i].theme, matching)
         THEN ExtractThemesFrom(text_lower, i + 1, Append(matching, THEME_KEYWORDS[i].theme))
         ELSE ExtractThemesFrom(text_lower, i + 1, matching)

extract_themes_from_text(text) == ExtractThemesFrom(Lower(text), 1, <<>>)

\* the keys of the dict ArxivToPublicationMapper.map returns
MapperPublicationKeys ==
    {"titre", "abstract", "arxiv_id", "doi", "date_publication", "type_publication",
     "source_nom", "status", "url", "nombre_citations", "score_pertinence"}

\* ArxivToPublicationMapper.map raises when title or summary is None (None.strip())
MapPublicationRaises(arxiv_paper) ==
    arxiv_paper.title = NoneText \/ arxiv_paper.summary = NoneText

\* ArxivToPublicationMapper.map without "Build DOI"
MapPublicationKeepingDoi(arxiv_paper) ==
    [titre |-> Strip(arxiv_paper.title),
     abstract |-> Strip(arxiv_paper.summary),
     arxiv_id |-> arxiv_paper.id,
     doi |-> arxiv_paper.doi,
     type_publication |-> "preprint",
     source_nom |-> "arXiv",
     status |-> "pending_enrichment",
     url |-> IF Truthy(arxiv_paper.id) THEN "https://arxiv.org/abs/" \o arxiv_paper.id
             ELSE None,
     nombre_citations |-> 0,
     keys |-> MapperPublicationKeys]

\* ArxivToPublicationMapper.map
MapPublication(arxiv_paper) ==
    [titre |-> Strip(arxiv_paper.title),
     abstract |-> Strip(arxiv_paper.summary),
     arxiv_id |-> arxiv_paper.id,
     doi |-> IF ~Truthy(arxiv_paper.doi) /\ Truthy(arxiv_paper.id)
             THEN "10.48550/arXiv." \o arxiv_paper.id
             ELSE arxiv_paper.doi,
     type_publication |-> "preprint",
     source_nom |-> "arXiv",
     status |-> "pending_enrichment",
     url |-> IF Truthy(arxiv_paper.id) THEN "https://arxiv.org/abs/" \o arxiv_paper.id
             ELSE None,
     nombre_citations |-> 0,
     keys |-> MapperPublicationKeys]

\* ArxivPipeline.transform (defined when the mapper does not raise)
transform(arxiv_paper) ==
    LET publication_data == MapPublication(arxiv_paper)
        by_category == map_categories(arxiv_paper.categories)
    IN [publication |-> publication_data,
        authors |-> map_authors(arxiv_paper.authors),
        themes |-> IF by_category = <<>> /\ TruthyText(publication_data.titre)
                   THEN extract_themes_from_text(
                            publication_data.titre \o <<" ">> \o publication_data.abstract)
                   ELSE by_category]

(***************************************************************************)
(* ArxivPipeline: load and its helpers, as functions from a session value  *)
(* to a session value.  An operator named XxxThen continues Xxx with the   *)
(* result of the awaited call it is given.                                 *)
(***************************************************************************)
\* after db.add(author); db.flush()
AuthorFlushedThen(f) ==
    IF f.exc # "" THEN [s |-> f, id |-> 0]
    ELSE [s |-> Bump(f, "authors_created"), id |-> Len(f.tx.auteurs)]

\* _find_or_create_author: [s, id].  With a nom, the lookup is the call
\* self.auteur_repo.get_by_name(nom, prenom), and AuteurRepository has no
\* attribute get_by_name: AttributeError.
_find_or_create_author(s, author_data) ==
    IF TruthyText(author_data.nom) THEN [s |-> Raise(s, "AttributeError"), id |-> 0]
    ELSE IF ~(author_data.keys \subseteq AuteurAttrs)
         THEN [s |-> Raise(s, "TypeError"), id |-> 0]
         ELSE AuthorFlushedThen(
                Flush(s, [s.tx EXCEPT !.auteurs =
                            Append(@, [nom |-> author_data.nom,
                                       prenom |-> author_data.prenom])]))

RECURSIVE HandleAuthorsFrom(_, _, _, _)
\* the body of the loop after author = await self._find_or_create_author(...)
HandleAuthorThen(r, publication_id, authors_data, i) ==
    IF r.s.exc # "" THEN r.s
    ELSE HandleAuthorsFrom(
            Add(r.s, "publication_auteur",
                [publication_id |-> publication_id, auteur_id |-> r.id, ordre |-> i]),
            publication_id, authors_data, i + 1)

\* the loop of _handle_authors from list position i (1-based, so ordre = i) on
HandleAuthorsFrom(s, publication_id, authors_data, i) ==
    IF i > Len(authors_data) THEN s
    ELSE HandleAuthorThen(_find_or_create_author(s, authors_data[i]),
                          publication_id, authors_data, i)

_handle_authors(s, publication_id, authors_data) ==
    HandleAuthorsFrom(s, publication_id, authors_data, 1)

\* after db.add(theme); db.flush()
ThemeFlushedThen(f) ==
    IF f.exc # "" THEN [s |-> f, id |-> 0]
    ELSE [s |-> Bump(f, "themes_created"), id |-> Len(f.tx.themes)]

\* after existing = await self.theme_repo.get_by_nom(theme_name)
ThemeLookedUpThen(q, theme_name, existing) ==
    IF existing = -1 THEN [s |-> Raise(q, "MultipleResultsFound"), id |-> 0]
    ELSE IF existing # 0 THEN [s |-> q, id |-> existing]
    ELSE ThemeFlushedThen(Flush(q, [q.tx EXCEPT !.themes = Append(@, theme_name)]))

\* ThemeRepository.get_by_nom on the autoflushed session q
ThemeQueryThen(q, theme_name) ==
    IF q.exc # "" THEN [s |-> q, id |-> 0]
    ELSE ThemeLookedUpThen(q, theme_name,
            ScalarOneOrNone({i \in 1..Len(q.tx.themes) : q.tx.themes[i] = theme_name}))

\* _find_or_create_theme: [s, id]
_find_or_create_theme(s, theme_name) == ThemeQueryThen(Execute(s), theme_name)

RECURSIVE HandleThemesFrom(_, _, _, _)
\* the body of the loop after theme = await self._find_or_create_theme(...)
HandleThemeThen(r, publication_id, theme_names, i) ==
    IF r.s.exc # "" THEN r.s
    ELSE HandleThemesFrom(
            Add(r.s, "publication_theme",
                [publication_id |-> publication_id, theme_id |-> r.id]),
            publication_id, theme_names, i + 1)

\* the loop of _handle_themes from list position i on
HandleThemesFrom(s, publication_id, theme_names, i) ==
    IF i > Len(theme_names) THEN s
    ELSE HandleThemeThen(_find_or_create_theme(s, theme_names[i]),
                         publication_id, theme_names, i)

_handle_themes(s, publication_id, theme_names) ==
    HandleThemesFrom(s, publication_id, theme_names, 1)

\* find_duplicate's result on the session q
FoundDuplicateThen(q, duplicate) ==
    IF duplicate = -1 THEN [s |-> Raise(q, "MultipleResultsFound"), id |-> 0]
    ELSE [s |-> q, id |-> duplicate]

\* find_duplicate's lookups on the autoflushed session q
FindDuplicateQueryThen(q, data) ==
    IF q.exc # "" THEN [s |-> q, id |-> 0]
    ELSE FoundDuplicateThen(q, find_duplicate(q.tx.pubs, data))

\* DeduplicationService.find_duplicate on the session: [s, id]; a lookup autoflushes,
\* and no lookup is made for data without doi, arxiv_id and titre
FindDuplicate(s, data) ==
    IF ~(Truthy(data.doi) \/ Truthy(data.arxiv_id) \/ TruthyText(data.titre))
    THEN [s |-> s, id |-> 0]
    ELSE FindDuplicateQueryThen(Execute(s), data)

\* the row a Publication built from the dict holds
RowOf(data) ==
    Pub(data.titre, data.abstract, data.doi, data.arxiv_id, data.url,
        data.nombre_citations)

\* DeduplicationService.merge_publications: assignments, commit, refresh
merge_publications(s, id, new_data) ==
    Commit(s, [s.tx EXCEPT !.pubs[id] = MergeFields(@, new_data)])

\* await self.db.commit() at the end of load
LoadCommit(t) == IF t.exc # "" THEN t ELSE Commit(t, t.tx)

\* load after _handle_authors
LoadAuthorsThen(a, publication_id, transformed_data) ==
    IF a.exc # "" THEN a
    ELSE LoadCommit(_handle_themes(a, publication_id, transformed_data.themes))

\* the tail of load once publication is set: authors, themes, commit, refresh
LoadRelations(s, publication_id, transformed_data) ==
    LoadAuthorsThen(_handle_authors(s, publication_id, transformed_data.authors),
                    publication_id, transformed_data)

\* load after merge_publications
LoadMergedThen(m, id, transformed_data) ==
    IF m.exc # "" THEN [s |-> m, path |-> "update", pub |-> 0, found |-> id]
    ELSE [s |-> LoadRelations(Bump(m, "papers_updated"), id, transformed_data),
          path |-> "update", pub |-> id, found |-> id]

\* load after db.add(publication); db.flush()
LoadInsertedThen(f, transformed_data) ==
    IF f.exc # "" THEN [s |-> f, path |-> "insert", pub |-> 0, found |-> 0]
    ELSE [s |-> LoadRelations(Bump(f, "papers_created"), Len(f.tx.pubs),
                              transformed_data),
          path |-> "insert", pub |-> Len(f.tx.pubs), found |-> 0]

\* a load that goes on to the authors and themes of a skipped record
LoadFoundThenRelatingSkipped(fd, transformed_data) ==
    IF fd.s.exc # "" THEN [s |-> fd.s, path |-> "none", pub |-> 0, found |-> 0]
    ELSE IF fd.id # 0 THEN
        IF should_update(fd.s.tx.pubs[fd.id], transformed_data.publication)
        THEN LoadMergedThen(
                merge_publications(fd.s, fd.id, transformed_data.publication),
                fd.id, transformed_data)
        ELSE [s |-> LoadRelations(Bump(fd.s, "papers_skipped"), fd.id, transformed_data),
              path |-> "skip", pub |-> 0, found |-> fd.id]
    ELSE IF ~(transformed_data.publication.keys \subseteq PublicationAttrs)
         THEN [s |-> Raise(fd.s, "TypeError"), path |-> "insert", pub |-> 0,
               found |-> 0]
         ELSE LoadInsertedThen(
                Flush(fd.s, [fd.s.tx EXCEPT !.pubs =
                                Append(@, RowOf(transformed_data.publication))]),
                transformed_data)

\* load after find_duplicate
LoadFoundThen(fd, transformed_data) ==
    IF fd.s.exc # "" THEN [s |-> fd.s, path |-> "none", pub |-> 0, found |-> 0]
    ELSE IF fd.id # 0 THEN
        IF should_update(fd.s.tx.pubs[fd.id], transformed_data.publication)
        THEN LoadMergedThen(
                merge_publications(fd.s, fd.id, transformed_data.publication),
                fd.id, transformed_data)
        ELSE [s |-> Bump(fd.s, "papers_skipped"), path |-> "skip", pub |-> 0,
              found |-> fd.id]
    ELSE IF ~(transformed_data.publication.keys \subseteq PublicationAttrs)
         THEN [s |-> Raise(fd.s, "TypeError"), path |-> "insert", pub |-> 0,
               found |-> 0]
         ELSE LoadInsertedThen(
                Flush(fd.s, [fd.s.tx EXCEPT !.pubs =
                                Append(@, RowOf(transformed_data.publication))]),
                transformed_data)

\* ArxivPipeline.load: [s, path, pub, found]; path is the branch taken ("skip",
\* "update", "insert", or "none" when find_duplicate raised), found the duplicate
\* find_duplicate returned (0 for None), pub the publication load inserted or
\* merged into (0 for none)
load(s, transformed_data) ==
    LoadFoundThen(FindDuplicate(s, transformed_data.publication), transformed_data)

\* the except clause of _process_paper: any exception is counted and dropped
ProcessedThen(r) ==
    [s |-> IF r.s.exc # "" THEN Raise(Bump(r.s, "errors"), "") ELSE r.s,
     path |-> r.path, pub |-> r.pub, found |-> r.found, exc |-> r.s.exc]

\* ArxivPipeline._process_paper: transform, load
_process_paper(s, arxiv_paper) ==
    IF MapPublicationRaises(arxiv_paper)
    THEN [s |-> Bump(s, "errors"), path |-> "none", pub |-> 0, found |-> 0,
          exc |-> "AttributeError"]
    ELSE ProcessedThen(load(s, transform(arxiv_paper)))

(***************************************************************************)
(* Inputs: arXiv ids, DOIs, titles, the papers a search returns, the       *)
(* transformed data a direct caller of load passes, and the corpora the    *)
(* pipeline starts from.                                                   *)
(***************************************************************************)
\* the number of papers loaded (by run or by a direct call of load) in one behaviour
MaxLoads == 3

Id1 == "2401.00001"
Id2 == "2401.00002"
Doi1 == "10.48550/arXiv.2401.00001"
DoiJ == "10.1234/j"
Url1 == "https://arxiv.org/abs/2401.00001"

TitleA  == <<"A", "b">>
TitleA2 == <<" ", "a", "B">>
TitleB  == <<"c", "d">>
Abs1    == <<"s">>

ML == "Machine Learning"

Paper(id, title, summary, doi, authors, categories) ==
    [id |-> id, title |-> title, summary |-> summary, doi |-> doi,
     authors |-> authors, categories |-> categories]

\* the papers ArxivCollector.search may return
Papers ==
    { Paper(Id1, TitleA, <<>>, None, <<>>, <<"cs.LG">>),
      Paper(Id1, TitleA2, <<" ", "s">>, None, <<>>, <<"cs.LG", "stat.ML", "cs.LG">>),
      Paper(Id1, TitleB, Abs1, None, <<[name |-> <<"J", " ", "S">>]>>, <<"cs.LG">>),
      Paper(Id2, TitleB, Abs1, DoiJ, <<>>, <<>>),
      Paper(None, NoneText, <<>>, None, <<>>, <<>>) }

\* the keys of a publication dict and of an author dict built by a direct caller
DirectPublicationKeys ==
    {"titre", "abstract", "doi", "arxiv_id", "url", "date_publication",
     "type_publication", "nombre_citations"}
DirectAuteurKeys == {"nom", "prenom", "email", "h_index", "homepage_url"}

Data(titre, abstract, doi, arxiv_id, url, cit) ==
    [titre |-> titre, abstract |-> abstract, doi |-> doi, arxiv_id |-> arxiv_id,
     url |-> url, nombre_citations |-> cit, keys |-> DirectPublicationKeys]

AuteurData(nom, prenom) == [nom |-> nom, prenom |-> prenom, keys |-> DirectAuteurKeys]

\* transformed data passed to load by a direct caller
DirectLoads ==
    { [publication |-> Data(TitleA, Abs1, Doi1, Id1, Url1, 0),
       authors |-> <<AuteurData(<<>>, <<"J">>), AuteurData(<<>>, <<"K">>)>>,
       themes |-> <<ML>>],
      [publication |-> Data(TitleA, Abs1, Doi1, Id1, Url1, 1),
       authors |-> <<AuteurData(<<>>, <<"J">>)>>,
       themes |-> <<>>],
      [publication |-> Data(TitleB, <<>>, None, None, None, 0),
       authors |-> <<AuteurData(<<>>, <<"J">>), AuteurData(<<"S">>, <<"J">>)>>,
       themes |-> <<>>],
      [publication |-> Data(<<>>, <<>>, "", None, None, 0),
       authors |-> <<>>,
       themes |-> <<>>] }

EmptyDatabase == Database(<<>>, <<>>, <<>>, {}, {})

\* the corpora a behaviour starts from: non-null DOIs and non-null arXiv ids are
\* pairwise distinct in each
Corpora ==
    { EmptyDatabase,
      Database(<<Pub(TitleA, NoneText, None, Id1, None, 0)>>, <<>>, <<>>, {}, {}),
      Database(<<Pub(TitleA, Abs1, Doi1, None, None, 0),
                 Pub(TitleB, Abs1, DoiJ, Id1, Url1, 2)>>, <<>>, <<>>, {}, {}),
      Database(<<Pub(TitleA, NoneText, Doi1, Id1, Url1, 0)>>,
               <<[nom |-> <<"S">>, prenom |-> <<"J">>]>>,
               <<ML>>,
               {[publication_id |-> 1, auteur_id |-> 1, ordre |-> 1]},
               {[publication_id |-> 1, theme_id |-> 1]}) }

(***************************************************************************)
(* Inputs of the DeduplicationService methods called on their own.         *)
(***************************************************************************)
Id3 == "2401.00003"
Url2 == "https://arxiv.org/abs/2401.00002"
Abs2 == <<"t">>

\* single publications: every combination of absent, empty and set fields
DedupRows ==
    { Pub(TitleA, a, d, x, u, c) :
        a \in {NoneText, <<>>, Abs1}, d \in {None, "", Doi1}, x \in {None, "", Id1},
        u \in {None, Url1}, c \in {0, 2} }

\* corpora of one publication, and corpora where the tiers point at different rows
\* (the last holds one arXiv id twice, which no constraint forbids)
DedupCorpora ==
    { Database(<<row>>, <<>>, <<>>, {}, {}) : row \in DedupRows }
    \cup
    { Database(<<Pub(TitleA, Abs1, Doi1, None, None, 0),
                 Pub(TitleB, Abs1, DoiJ, Id1, Url1, 2)>>, <<>>, <<>>, {}, {}),
      Database(<<Pub(TitleB, Abs1, None, Id2, None, 0),
                 Pub(TitleA, Abs1, Doi1, None, None, 0),
                 Pub(TitleA2, Abs1, None, Id3, None, 0)>>, <<>>, <<>>, {}, {}),
      Database(<<Pub(TitleA, Abs1, Doi1, None, None, 0),
                 Pub(TitleB, Abs1, None, Id1, None, 0),
                 Pub(TitleB, Abs1, None, Id1, None, 0)>>, <<>>, <<>>, {}, {}) }

\* candidate dicts
DedupData ==
    { Data(t, a, d, x, u, c) :
        t \in {TitleA2, TitleB}, a \in {NoneText, <<>>, Abs2}, d \in {None, "", Doi1},
        x \in {None, Id1, Id2}, u \in {None, Url2}, c \in {0, 1, 3} }

(***************************************************************************)
(* The state machine: one pipeline on one session.                         *)
(***************************************************************************)
VARIABLES
    committed,  \* the committed tables
    tx,         \* the tables as the session's open transaction sees them
    pending,    \* association objects added to the session and not yet flushed
    session,    \* "active" or "inactive"
    stats,      \* self.stats
    pc,         \* "idle", or "running" inside run's loop over papers
    remaining,  \* papers of the running batch not yet processed
    batch,      \* papers of the running batch processed so far, in order
    previous,   \* the papers of the run before
    loads,      \* calls made so far
    last        \* what the last step did

\* ArxivCollector and its callers
VARIABLES
    _session,       \* self._session: None or the aiohttp ClientSession
    sessions_open,  \* ClientSession objects created and not yet closed
    bracket,        \* where the caller of the collector is: "outside" the
                    \* "async with" block, or inside the block of an
                    \* "ArxivCollector" or an "ArxivPipeline"
    rate_limiter,   \* self.rate_limiter: the fill level of the AsyncLimiter
    calls           \* the calls of search and fetch_by_ids in progress

\* SemanticScholarClient and its callers
VARIABLES
    _client,           \* self._client: None or the httpx AsyncClient
    clients_open,      \* AsyncClient objects created and not yet closed
    client_bracket,    \* "outside", or inside the "async with" block of a
                       \* "SemanticScholarClient" or an "EnrichmentService"
    request_times,     \* self.request_times
    _rate_limit_lock,  \* the task that holds self._rate_limit_lock, or 0
    clock,             \* datetime.now(), in ticks
    requests           \* the calls of the client in progress

\* EnrichmentService.enrich_publications and the tasks of its batches
VARIABLES
    enrich_pc,      \* "idle", inside a "batch", "returned" or "raised"
    enrich_stats,   \* stats of enrich_publications
    enrich_tasks,   \* the enrich_single_publication task of each publication
    semaphore,      \* the value of the semaphore of the batch
    batch_start,    \* i of the loop over the batches
    dirty,          \* publications changed in self.db and not yet committed
    enriched_rows   \* publications whose enrichment is committed

\* one call of EnrichmentService._fetch_semantic_scholar_data
VARIABLES
    fetch           \* where the call is, what it did so far, what it returned

\* the last call of ArxivPipeline.run
VARIABLES
    run_times,      \* stats.start_time and stats.end_time: <<>> for None, or
                    \* <<t>> for the time t
    run_result      \* "" while run is in progress or was never called, "stats"
                    \* when it returned them, or the exception it raised

\* SchedulerManager and the APScheduler objects it drives
VARIABLES
    scheduler,       \* self.scheduler: None, or the state of the AsyncIOScheduler:
                     \* "stopped" before start, "running", "shutdown"
    _pending_jobs,   \* jobs added tentatively while the scheduler is not running
    jobstore,        \* the rows of the 'default' job store
    _jobs_registry,  \* the keys of self._jobs_registry
    _instances,      \* the executor's count of running instances per job id
    invocations,     \* the invocations the executor has submitted and that
                     \* have not finished
    fires,           \* trigger firings so far
    sched_events,    \* <<event, job id>> the scheduler has dispatched
    sched_exc        \* what the last call on the manager raised, "" for nothing

\* one call of a function that has no state
VARIABLES
    call,            \* [op, args, result]
    was_positive     \* the publications whose citation count has been positive

pipelineVars ==
    <<committed, tx, pending, session, stats, pc, remaining, batch, previous, loads,
      last>>

collectorVars == <<_session, sessions_open, bracket, rate_limiter, calls>>

clientVars ==
    <<_client, clients_open, client_bracket, request_times, _rate_limit_lock, clock,
      requests>>

enrichVars ==
    <<enrich_pc, enrich_stats, enrich_tasks, semaphore, batch_start, dirty,
      enriched_rows>>

runVars == <<run_times, run_result>>

callVars == <<call, was_positive>>

schedVars ==
    <<scheduler, _pending_jobs, jobstore, _jobs_registry, _instances, invocations,
      fires, sched_events, sched_exc>>

ioVars == <<collectorVars, clientVars, enrichVars, fetch, schedVars, callVars>>

\* the variables the actions of one component leave alone
exceptCollector == <<pipelineVars, runVars, clientVars, enrichVars, fetch, schedVars, callVars>>
exceptClient == <<pipelineVars, runVars, collectorVars, enrichVars, fetch, schedVars, callVars>>
exceptEnrich == <<pipelineVars, runVars, collectorVars, clientVars, fetch, schedVars, callVars>>
exceptFetch ==
    <<pipelineVars, runVars, collectorVars, clientVars, enrichVars, schedVars, callVars>>
exceptSched ==
    <<pipelineVars, runVars, collectorVars, clientVars, enrichVars, fetch, callVars>>
exceptCall ==
    <<pipelineVars, runVars, collectorVars, clientVars, enrichVars, fetch, schedVars>>

vars == <<pipelineVars, runVars, ioVars>>

\* ArxivPipelineStats.__init__
NewStats ==
    [papers_collected |-> 0, papers_created |-> 0, papers_updated |-> 0,
     papers_skipped |-> 0, authors_created |-> 0, themes_created |-> 0, errors |-> 0]

NoStep ==
    [op |-> "none", path |-> "none", pub |-> 0, found |-> 0, exc |-> "", data |-> <<>>]

Sess ==
    [tx |-> tx, pend |-> pending, com |-> committed, sess |-> session,
     stats |-> stats, exc |-> ""]

InitPipeline(corpora) ==
    /\ committed \in corpora
    /\ tx = committed
    /\ pending = <<>>
    /\ session = "active"
    /\ stats = NewStats
    /\ pc = "idle"
    /\ remaining = 0
    /\ batch = <<>>
    /\ previous = <<>>
    /\ loads = 0
    /\ last = NoStep
    /\ run_times = [start_time |-> <<>>, end_time |-> <<>>]
    /\ run_result = ""

\* tasks that call one collector concurrently
NumCallers == 2
Callers == 1..NumCallers

\* a caller that is not inside search or fetch_by_ids
NoCall ==
    [method |-> "none", pc |-> "idle", attempt |-> 0, acquired |-> 0, sent |-> 0,
     cause |-> "", outcome |-> ""]

\* ArxivCollector.__init__
InitCollector ==
    /\ _session = None
    /\ sessions_open = 0
    /\ bracket = "outside"
    /\ rate_limiter = 0
    /\ calls = [t \in Callers |-> NoCall]

\* a caller that is not inside a method of the client
NoRequest ==
    [method |-> "none", pc |-> "idle", attempt |-> 0, passed |-> 0, wake |-> 0,
     cause |-> "", outcome |-> ""]

\* SemanticScholarClient.__init__
InitClient ==
    /\ _client = None
    /\ clients_open = 0
    /\ client_bracket = "outside"
    /\ request_times = <<>>
    /\ _rate_limit_lock = 0
    /\ clock = 0
    /\ requests = [t \in Callers |-> NoRequest]

\* publications the query of enrich_publications returns at most
MaxPublications == 4

\* EnrichmentService(db, batch_size=3, max_concurrent=2)
batch_size == 3
max_concurrent == 2

\* EnrichmentStats.__init__
NewEnrichmentStats ==
    [total_publications |-> 0, enriched_publications |-> 0,
     failed_publications |-> 0, skipped_publications |-> 0]

\* a publication no task was made for
NoTask == [pc |-> "none", entered |-> 0, result |-> "", value |-> ""]

\* EnrichmentService.__init__
InitEnrich ==
    /\ enrich_pc = "idle"
    /\ enrich_stats = NewEnrichmentStats
    /\ enrich_tasks = [t \in 1..MaxPublications |-> NoTask]
    /\ semaphore = 0
    /\ batch_start = 0
    /\ dirty = {}
    /\ enriched_rows = {}

\* no call of _fetch_semantic_scholar_data yet
NoFetch ==
    [pc |-> "idle", arxiv_id |-> FALSE, doi |-> FALSE, sleeps |-> 0,
     client_calls |-> 0, result |-> ""]

InitFetch == fetch = NoFetch

\* the job ids the callers of add_job use
JobIds == {"arxiv_daily", "test_max_instances"}

\* SchedulerManager.__init__, with the job store of an earlier process empty
InitSched ==
    /\ scheduler = None
    /\ _pending_jobs = <<>>
    /\ jobstore = <<>>
    /\ _jobs_registry = {}
    /\ _instances = [id \in JobIds |-> 0]
    /\ invocations = <<>>
    /\ fires = 0
    /\ sched_events = {}
    /\ sched_exc = ""

\* no function was called
NoCallYet == [op |-> "none", args |-> <<>>, result |-> <<>>]

InitIO ==
    /\ InitCollector /\ InitClient /\ InitEnrich /\ InitFetch /\ InitSched
    /\ call = NoCallYet
    /\ was_positive = {i \in 1..Len(committed.pubs) : committed.pubs[i].nombre_citations > 0}

InitOn(corpora) == InitPipeline(corpora) /\ InitIO

Init == InitOn(Corpora)

SetSession(s) ==
    /\ committed' = s.com
    /\ tx' = s.tx
    /\ pending' = s.pend
    /\ session' = s.sess
    /\ stats' = s.stats

\* an exception that leaves the caller's "async with" block or test: the session
\* is rolled back on the way out
Propagate(s) == IF s.exc # "" THEN Rollback(Raise(s, "")) ELSE s

\* run, up to the loop: fresh stats, extract returns n papers
Run(n) ==
    /\ pc = "idle"
    /\ pc' = "running"
    /\ remaining' = n
    /\ batch' = <<>>
    /\ previous' = batch
    /\ stats' = [NewStats EXCEPT !.papers_collected = n]
    /\ last' = [NoStep EXCEPT !.op = "run"]
    /\ run_times' = [start_time |-> <<clock>>, end_time |-> <<>>]
    /\ run_result' = ""
    /\ UNCHANGED <<committed, tx, pending, session, loads>>
    /\ UNCHANGED ioVars

\* run when extract raises: the except clause of run sets end_time and raises
\* ArxivPipelineError
RunRaises(exception) ==
    /\ pc = "idle"
    /\ remaining' = 0
    /\ batch' = <<>>
    /\ previous' = batch
    /\ stats' = NewStats
    /\ last' = [NoStep EXCEPT !.op = "run", !.exc = exception]
    /\ run_times' = [start_time |-> <<clock>>, end_time |-> <<clock>>]
    /\ run_result' = "ArxivPipelineError"
    /\ UNCHANGED <<committed, tx, pending, session, pc, loads>>
    /\ UNCHANGED ioVars

\* the except clause of _process_paper lets no exception of transform or load
\* reach run
ReachesRunAlways(exc) == exc # ""
ReachesRun(exc) == FALSE

\* one iteration of run's loop: _process_paper(paper); an exception that
\* reached run would end it in its except clause
ProcessPaper(paper) ==
    /\ pc = "running"
    /\ remaining > 0
    /\ \E r \in {_process_paper(Sess, paper)} :
          /\ SetSession(r.s)
          /\ last' = [op |-> "process", path |-> r.path, pub |-> r.pub,
                      found |-> r.found, exc |-> r.exc, data |-> paper]
          /\ IF ReachesRun(r.exc)
             THEN /\ pc' = "idle"
                  /\ run_times' = [run_times EXCEPT !.end_time = <<clock>>]
                  /\ run_result' = "ArxivPipelineError"
             ELSE UNCHANGED <<pc, runVars>>
    /\ remaining' = remaining - 1
    /\ batch' = Append(batch, paper)
    /\ loads' = loads + 1
    /\ UNCHANGED previous
    /\ UNCHANGED ioVars

\* run returns the stats after the loop
RunReturn ==
    /\ pc = "running"
    /\ remaining = 0
    /\ pc' = "idle"
    /\ last' = [NoStep EXCEPT !.op = "return"]
    /\ run_times' = [run_times EXCEPT !.end_time = <<clock>>]
    /\ run_result' = "stats"
    /\ UNCHANGED <<committed, tx, pending, session, stats, remaining, batch, previous,
                   loads>>
    /\ UNCHANGED ioVars

\* a direct call of load; an exception propagates to the caller
Load(transformed_data) ==
    /\ pc = "idle"
    /\ loads < MaxLoads
    /\ \E r \in {load(Sess, transformed_data)} :
          /\ SetSession(Propagate(r.s))
          /\ last' = [op |-> "load", path |-> r.path, pub |-> r.pub,
                      found |-> r.found, exc |-> r.s.exc, data |-> transformed_data]
    /\ loads' = loads + 1
    /\ UNCHANGED <<pc, remaining, batch, previous>>
    /\ UNCHANGED ioVars
    /\ UNCHANGED runVars

NextRun ==
    \/ \E n \in 0..(MaxLoads - loads) : Run(n)
    \/ \E paper \in Papers : ProcessPaper(paper)
    \/ RunReturn

Next ==
    \/ NextRun
    \/ \E t \in DirectLoads : Load(t)

\* runs and direct loads
Spec == Init /\ [][Next]_vars

\* runs only
SpecRun == Init /\ [][NextRun]_vars

\* what leaves ArxivCollector.search when it fails
ExtractFailures == {"RetryError", "ArxivCollectorError", "TimeoutError"}

(***************************************************************************)
(* One call of a DeduplicationService method on a corpus.                  *)
(***************************************************************************)
\* find_duplicate(db, publication_data)
FindDuplicateCall(data) ==
    /\ loads = 0
    /\ \E r \in {FindDuplicate(Sess, data)} :
          /\ SetSession(Propagate(r.s))
          /\ last' = [op |-> "find_duplicate", path |-> "none", pub |-> 0,
                      found |-> r.id, exc |-> r.s.exc, data |-> data]
    /\ loads' = 1
    /\ UNCHANGED <<pc, remaining, batch, previous>>
    /\ UNCHANGED ioVars
    /\ UNCHANGED runVars

\* should_update(existing, new_data) with a publication of the corpus
ShouldUpdateCall(id, data) ==
    /\ loads = 0
    /\ id \in 1..Len(tx.pubs)
    /\ last' = [op |-> "should_update",
                path |-> IF should_update(tx.pubs[id], data) THEN "update" ELSE "skip",
                pub |-> 0, found |-> id, exc |-> "", data |-> data]
    /\ loads' = 1
    /\ UNCHANGED <<committed, tx, pending, session, stats, pc, remaining, batch,
                   previous>>
    /\ UNCHANGED ioVars
    /\ UNCHANGED runVars

\* merge_publications(db, existing, new_data) with a publication of the corpus
MergePublicationsCall(id, data) ==
    /\ loads = 0
    /\ id \in 1..Len(tx.pubs)
    /\ \E m \in {merge_publications(Sess, id, data)} :
          /\ SetSession(Propagate(m))
          /\ last' = [op |-> "merge_publications", path |-> "update",
                      pub |-> IF m.exc = "" THEN id ELSE 0, found |-> id,
                      exc |-> m.exc, data |-> data]
    /\ loads' = 1
    /\ UNCHANGED <<pc, remaining, batch, previous>>
    /\ UNCHANGED ioVars
    /\ UNCHANGED runVars

NextDedup ==
    \/ \E data \in DedupData : FindDuplicateCall(data)
    \/ \E id \in 1..3, data \in DedupData : ShouldUpdateCall(id, data)
    \/ \E id \in 1..3, data \in DedupData : MergePublicationsCall(id, data)

SpecDedup == InitOn(DedupCorpora) /\ [][NextDedup]_vars

(***************************************************************************)
(* ArxivCollector: the "async with" bracket, and search and fetch_by_ids   *)
(* under their retry decorator, called by concurrent tasks.                *)
(***************************************************************************)
\* stop_after_attempt(3) of the retry decorators
stop_after_attempt == 3

\* rate_limit_requests of ArxivCollector.__init__: the capacity of the limiter
rate_limit_requests == 1

\* what the server and the network can do to one request: a well-formed feed,
\* an aiohttp.ClientError (connection failure, error status raised by
\* raise_for_status), a body that is not well-formed XML, or the total timeout
\* of the session, which aiohttp raises as asyncio.TimeoutError
Responses == {"ok", "ClientError", "ParseError", "TimeoutError"}

\* the exception _make_request raises for a response, "" when it returns
MakeRequestRaises(response) ==
    CASE response = "ok" -> ""
      [] response = "ClientError" -> "ArxivAPIError"
      [] response = "ParseError" -> "ArxivAPIError"
      [] OTHER -> response

\* retry_if_exception_type((aiohttp.ClientError, ArxivAPIError))
RetryIfExceptionType(exception) == exception \in {"ClientError", "ArxivAPIError"}

\* where an attempt of the decorated function starts waiting: every attempt
\* runs the whole body, so it enters "async with self.rate_limiter" again
AttemptStartsAtOnRetry(attempt) == IF attempt = 1 THEN "limiter" ELSE "make_request"
AttemptStartsAt(attempt) == "limiter"

\* __aexit__ of ArxivCollector: <<_session, sessions_open>> after it
CollectorAExitKeepingOnException(s, open, exc_type) ==
    IF s # None /\ exc_type = None THEN <<None, open - 1>> ELSE <<s, open>>
CollectorAExit(s, open, exc_type) ==
    IF s # None THEN <<None, open - 1>> ELSE <<s, open>>

\* "async with collector" and "async with ArxivPipeline(db)", whose __aenter__
\* calls the collector's
CollectorEnter(owner) ==
    /\ bracket = "outside"
    /\ bracket' = owner
    /\ _session' = "ClientSession"
    /\ sessions_open' = sessions_open + 1
    /\ UNCHANGED <<rate_limiter, calls, exceptCollector>>

\* the block is left, normally (exc_type None) or by an exception
CollectorExit(exc_type) ==
    /\ bracket # "outside"
    /\ bracket' = "outside"
    /\ \E r \in {CollectorAExit(_session, sessions_open, exc_type)} :
          /\ _session' = r[1]
          /\ sessions_open' = r[2]
    /\ UNCHANGED <<rate_limiter, calls, exceptCollector>>

\* a task calls search, or fetch_by_ids with a list of ids that may be empty
CollectorCall(t, method, empty) ==
    /\ calls[t].pc = "idle"
    /\ empty => method = "fetch_by_ids"
    /\ calls' = [calls EXCEPT ![t] =
          IF empty
          THEN [NoCall EXCEPT !.method = method, !.pc = "returned", !.attempt = 1,
                              !.outcome = "results"]
          ELSE [NoCall EXCEPT !.method = method, !.pc = AttemptStartsAt(1),
                              !.attempt = 1]]
    /\ UNCHANGED <<_session, sessions_open, bracket, rate_limiter, exceptCollector>>

\* "async with self.rate_limiter": the task gets capacity of the limiter
LimiterAcquire(t) ==
    /\ calls[t].pc = "limiter"
    /\ rate_limiter < rate_limit_requests
    /\ rate_limiter' = rate_limiter + 1
    /\ calls' = [calls EXCEPT ![t].pc = "make_request",
                              ![t].acquired = calls[t].acquired + 1]
    /\ UNCHANGED <<_session, sessions_open, bracket, exceptCollector>>

\* time passes: the limiter drains
LimiterLeak ==
    /\ rate_limiter > 0
    /\ rate_limiter' = rate_limiter - 1
    /\ UNCHANGED <<_session, sessions_open, bracket, calls, exceptCollector>>

\* _make_request up to self._session.get: the request leaves, or the session
\* is missing
CollectorSend(t) ==
    /\ calls[t].pc = "make_request"
    /\ calls' = [calls EXCEPT ![t] =
          IF _session = None
          THEN [@ EXCEPT !.pc = "raised", !.cause = "Session not initialized",
                         !.outcome = "ArxivCollectorError"]
          ELSE [@ EXCEPT !.pc = "response", !.sent = @ + 1]]
    /\ UNCHANGED <<_session, sessions_open, bracket, rate_limiter, exceptCollector>>

\* the rest of _make_request and the decision of the retry decorator
CollectorRespond(t, response) ==
    /\ calls[t].pc = "response"
    /\ calls' = [calls EXCEPT ![t] =
          IF MakeRequestRaises(response) = ""
          THEN [@ EXCEPT !.pc = "returned", !.cause = response,
                         !.outcome = "results"]
          ELSE IF ~RetryIfExceptionType(MakeRequestRaises(response))
          THEN [@ EXCEPT !.pc = "raised", !.cause = response,
                         !.outcome = MakeRequestRaises(response)]
          ELSE IF calls[t].attempt >= stop_after_attempt
          THEN [@ EXCEPT !.pc = "raised", !.cause = response,
                         !.outcome = "RetryError"]
          ELSE [@ EXCEPT !.pc = "wait", !.cause = response]]
    /\ UNCHANGED <<_session, sessions_open, bracket, rate_limiter, exceptCollector>>

\* the wait of wait_exponential is over: the next attempt starts
CollectorRetry(t) ==
    /\ calls[t].pc = "wait"
    /\ calls' = [calls EXCEPT ![t].pc = AttemptStartsAt(calls[t].attempt + 1),
                              ![t].attempt = calls[t].attempt + 1]
    /\ UNCHANGED <<_session, sessions_open, bracket, rate_limiter, exceptCollector>>

\* the caller has its result or its exception
CollectorCallOver(t) ==
    /\ calls[t].pc \in {"returned", "raised"}
    /\ calls' = [calls EXCEPT ![t] = NoCall]
    /\ UNCHANGED <<_session, sessions_open, bracket, rate_limiter, exceptCollector>>

CollectorSteps(tasks) ==
    \/ \E owner \in {"ArxivCollector", "ArxivPipeline"} : CollectorEnter(owner)
    \/ \E exc_type \in {None, "Exception"} : CollectorExit(exc_type)
    \/ \E t \in tasks, method \in {"search", "fetch_by_ids"}, empty \in BOOLEAN :
          CollectorCall(t, method, empty)
    \/ \E t \in tasks : LimiterAcquire(t)
    \/ LimiterLeak
    \/ \E t \in tasks, response \in Responses : CollectorRespond(t, response)
    \/ \E t \in tasks : CollectorSend(t)
    \/ \E t \in tasks : CollectorRetry(t)
    \/ \E t \in tasks : CollectorCallOver(t)

NextCollector == CollectorSteps(Callers)

SpecCollector == InitOn({EmptyDatabase}) /\ [][NextCollector]_vars

(***************************************************************************)
(* SemanticScholarClient: the "async with" bracket, the sliding-window     *)
(* limiter, _make_request under its retry decorator and the get_paper      *)
(* methods, called by concurrent tasks.                                    *)
(***************************************************************************)
\* SemanticScholarClient(rate_limit_requests=2), the client of
\* test_rate_limiting
client_rate_limit_requests == 2

\* RATE_LIMIT_WINDOW, in ticks of the clock
WindowTicks == 2

\* the clock stops here
MaxClock == 5

\* what the server and the network can do to one request
ClientResponses ==
    {"200", "404", "429", "500", "InvalidJSON", "TimeoutException", "NetworkError"}

\* the exception _make_request raises for a response, "" when it returns
ClientMakeRequestRaises(response) ==
    CASE response = "200" -> ""
      [] response = "404" -> "PaperNotFoundError"
      [] response = "429" -> "RateLimitError"
      [] response = "500" -> "SemanticScholarError"
      [] response = "InvalidJSON" -> "SemanticScholarError"
      [] OTHER -> response

\* retry_if_exception_type((httpx.TimeoutException, httpx.NetworkError))
ClientRetryOnRateLimit(exception) ==
    exception \in {"TimeoutException", "NetworkError", "RateLimitError"}
ClientRetryIfExceptionType(exception) ==
    exception \in {"TimeoutException", "NetworkError"}

\* get_paper_by_arxiv_id, get_paper_by_doi: what the caller gets when
\* _make_request raises
GetPaperOutcome(exception) ==
    IF exception = "PaperNotFoundError" THEN None ELSE exception

\* asyncio.Lock: acquire succeeds when nobody holds it
LockAlwaysFree(lock) == TRUE
LockFree(lock) == lock = 0

\* the list comprehension of _wait_for_rate_limit
PruneTimes(times, now) == SelectSeq(times, LAMBDA req_time : req_time > now - WindowTicks)

\* __aexit__ of SemanticScholarClient: <<_client, clients_open>> after it
ClientAExitKeepingOnException(c, open, exc_type) ==
    IF c # None /\ exc_type = None THEN <<None, open - 1>> ELSE <<c, open>>
ClientAExit(c, open, exc_type) ==
    IF c # None THEN <<None, open - 1>> ELSE <<c, open>>

\* "async with SemanticScholarClient()"; "async with EnrichmentService(db)"
\* makes a new client first, whose window is empty
ClientEnter(owner) ==
    /\ client_bracket = "outside"
    /\ client_bracket' = owner
    /\ _client' = "AsyncClient"
    /\ clients_open' = clients_open + 1
    /\ IF owner = "EnrichmentService"
       THEN /\ \A t \in Callers : requests[t].pc = "idle"
            /\ request_times' = <<>>
            /\ _rate_limit_lock' = 0
       ELSE UNCHANGED <<request_times, _rate_limit_lock>>
    /\ UNCHANGED <<clock, requests, exceptClient>>

\* the block is left, normally (exc_type None) or by an exception
ClientExit(exc_type) ==
    /\ client_bracket # "outside"
    /\ client_bracket' = "outside"
    /\ \E r \in {ClientAExit(_client, clients_open, exc_type)} :
          /\ _client' = r[1]
          /\ clients_open' = r[2]
    /\ UNCHANGED <<request_times, _rate_limit_lock, clock, requests, exceptClient>>

\* a task calls get_paper_by_arxiv_id or get_paper_by_doi, or
\* _wait_for_rate_limit alone as test_rate_limiting does
ClientCall(t, method) ==
    /\ requests[t].pc = "idle"
    /\ requests' = [requests EXCEPT ![t] =
          [NoRequest EXCEPT !.method = method,
                            !.pc = IF method = "_wait_for_rate_limit"
                                   THEN "lock" ELSE "start",
                            !.attempt = 1]]
    /\ UNCHANGED <<_client, clients_open, client_bracket, request_times,
                   _rate_limit_lock, clock, exceptClient>>

\* _make_request, the check of self._client that opens every attempt
ClientAttempt(t) ==
    /\ requests[t].pc = "start"
    /\ requests' = [requests EXCEPT ![t] =
          IF _client = None
          THEN [@ EXCEPT !.pc = "raised", !.cause = "Client not initialized",
                         !.outcome = "SemanticScholarError"]
          ELSE [@ EXCEPT !.pc = "lock"]]
    /\ UNCHANGED <<_client, clients_open, client_bracket, request_times,
                   _rate_limit_lock, clock, exceptClient>>

\* _wait_for_rate_limit: "async with self._rate_limit_lock"
ClientLock(t) ==
    /\ requests[t].pc = "lock"
    /\ LockFree(_rate_limit_lock)
    /\ _rate_limit_lock' = t
    /\ requests' = [requests EXCEPT ![t].pc = "window"]
    /\ UNCHANGED <<_client, clients_open, client_bracket, request_times, clock,
                   exceptClient>>

\* the method is over once the limiter is passed, or the request comes next
AfterLimiter(method) == IF method = "_wait_for_rate_limit" THEN "returned" ELSE "get"

\* _wait_for_rate_limit under the lock: prune, check, then sleep or record
ClientWindow(t) ==
    /\ requests[t].pc = "window"
    /\ \E kept \in {PruneTimes(request_times, clock)} :
          IF Len(kept) >= client_rate_limit_requests
             /\ kept[1] + WindowTicks - clock > 0
          THEN /\ request_times' = kept
               /\ requests' = [requests EXCEPT ![t].pc = "sleep",
                                               ![t].wake = kept[1] + WindowTicks]
               /\ UNCHANGED _rate_limit_lock
          ELSE /\ request_times' = Append(kept, clock)
               /\ requests' = [requests EXCEPT
                     ![t].pc = AfterLimiter(requests[t].method),
                     ![t].passed = requests[t].passed + 1]
               /\ _rate_limit_lock' = 0
    /\ UNCHANGED <<_client, clients_open, client_bracket, clock, exceptClient>>

\* asyncio.sleep(wait_seconds) is over: record the request, leave the lock
ClientWake(t) ==
    /\ requests[t].pc = "sleep"
    /\ clock >= requests[t].wake
    /\ request_times' = Append(request_times, clock)
    /\ requests' = [requests EXCEPT ![t].pc = AfterLimiter(requests[t].method),
                                    ![t].passed = requests[t].passed + 1]
    /\ _rate_limit_lock' = 0
    /\ UNCHANGED <<_client, clients_open, client_bracket, clock, exceptClient>>

\* self._client.get: the request leaves; on a client closed meanwhile the
\* attribute access fails, which the last except clause wraps
ClientGet(t) ==
    /\ requests[t].pc = "get"
    /\ requests' = [requests EXCEPT ![t] =
          IF _client = None
          THEN [@ EXCEPT !.pc = "raised", !.cause = "AttributeError",
                         !.outcome = "SemanticScholarError"]
          ELSE [@ EXCEPT !.pc = "response"]]
    /\ UNCHANGED <<_client, clients_open, client_bracket, request_times,
                   _rate_limit_lock, clock, exceptClient>>

\* the status code or the failure of the request, the decision of the retry
\* decorator, and the except clauses of the get_paper method
ClientRespond(t, response) ==
    /\ requests[t].pc = "response"
    /\ requests' = [requests EXCEPT ![t] =
          IF ClientMakeRequestRaises(response) = ""
          THEN [@ EXCEPT !.pc = "returned", !.cause = response, !.outcome = "data"]
          ELSE IF ~ClientRetryIfExceptionType(ClientMakeRequestRaises(response))
          THEN [@ EXCEPT
                  !.pc = IF GetPaperOutcome(ClientMakeRequestRaises(response)) = None
                         THEN "returned" ELSE "raised",
                  !.cause = response,
                  !.outcome = GetPaperOutcome(ClientMakeRequestRaises(response))]
          ELSE IF requests[t].attempt >= stop_after_attempt
          THEN [@ EXCEPT !.pc = "raised", !.cause = response,
                         !.outcome = "RetryError"]
          ELSE [@ EXCEPT !.pc = "wait", !.cause = response]]
    /\ UNCHANGED <<_client, clients_open, client_bracket, request_times,
                   _rate_limit_lock, clock, exceptClient>>

\* the wait of wait_exponential is over: the next attempt starts
ClientRetry(t) ==
    /\ requests[t].pc = "wait"
    /\ requests' = [requests EXCEPT ![t].pc = "start",
                                    ![t].attempt = requests[t].attempt + 1]
    /\ UNCHANGED <<_client, clients_open, client_bracket, request_times,
                   _rate_limit_lock, clock, exceptClient>>

\* the caller has its result or its exception
ClientCallOver(t) ==
    /\ requests[t].pc \in {"returned", "raised"}
    /\ requests' = [requests EXCEPT ![t] = NoRequest]
    /\ UNCHANGED <<_client, clients_open, client_bracket, request_times,
                   _rate_limit_lock, clock, exceptClient>>

\* time passes
ClockTick ==
    /\ clock < MaxClock
    /\ clock' = clock + 1
    /\ UNCHANGED <<_client, clients_open, client_bracket, request_times,
                   _rate_limit_lock, requests, exceptClient>>

\* the bracket and the get_paper methods, as far as they go while the clock
\* stands still
ClientSteps(tasks) ==
    \/ \E owner \in {"SemanticScholarClient", "EnrichmentService"} : ClientEnter(owner)
    \/ \E exc_type \in {None, "Exception"} : ClientExit(exc_type)
    \/ \E t \in tasks, method \in {"get_paper_by_arxiv_id", "get_paper_by_doi"} :
          ClientCall(t, method)
    \/ \E t \in tasks : ClientAttempt(t)
    \/ \E t \in tasks : ClientLock(t)
    \/ \E t \in tasks : ClientWindow(t)
    \/ \E t \in tasks : ClientGet(t)
    \/ \E t \in tasks, response \in ClientResponses : ClientRespond(t, response)
    \/ \E t \in tasks : ClientRetry(t)
    \/ \E t \in tasks : ClientCallOver(t)

\* one task that uses the client
NextClient ==
    \/ ClientSteps({1})
    \/ ClientWake(1)
    \/ ClockTick

SpecClient == InitOn({EmptyDatabase}) /\ [][NextClient]_vars

\* concurrent tasks that call _wait_for_rate_limit of one client
NextLimiter ==
    \/ \E t \in Callers : ClientCall(t, "_wait_for_rate_limit")
    \/ \E t \in Callers : ClientLock(t)
    \/ \E t \in Callers : ClientWindow(t)
    \/ \E t \in Callers : ClientWake(t)
    \/ \E t \in Callers : ClientCallOver(t)
    \/ ClockTick

SpecLimiter == InitOn({EmptyDatabase}) /\ [][NextLimiter]_vars

\* the two clients, one caller each
NextLifecycle == CollectorSteps({1}) \/ ClientSteps({1})

SpecLifecycle == InitOn({EmptyDatabase}) /\ [][NextLifecycle]_vars

(***************************************************************************)
(* EnrichmentService: enrich_publications, _enrich_batch and               *)
(* enrich_single_publication, whose tasks share self.db.                   *)
(***************************************************************************)
\* the Exception a task of the batch would hand to gather
Raised == "Exception"

\* what enrich_single_publication returns for the way it ended: the
\* enrichment data, or None
ReturnValue(result) == IF result = "data" THEN "data" ELSE None

\* asyncio.Semaphore: acquire succeeds while the value is positive
SemaphoreAlwaysAvailable(value) == TRUE
SemaphoreAvailable(value) == value > 0

\* the publications of the batch that starts after the first i publications
BatchAfter(i, total) == {t \in 1..total : i < t /\ t <= i + batch_size}

\* the tasks gather creates for a batch
TasksOfBatch(tasks, batch_pubs) ==
    [t \in DOMAIN tasks |->
        IF t \in batch_pubs THEN [NoTask EXCEPT !.pc = "pending"] ELSE tasks[t]]

\* the counts _enrich_batch makes of the results of gather
BatchStats(tasks, batch_pubs) ==
    [enriched |-> Cardinality({t \in batch_pubs :
                     tasks[t].value \notin {None, Raised}}),
     failed |-> Cardinality({t \in batch_pubs : tasks[t].value = Raised}),
     skipped |-> Cardinality({t \in batch_pubs : tasks[t].value = None})]

\* enrich_publications up to the first batch: the query, which may raise, and
\* the tasks of the first batch
EnrichPublications(n, query) ==
    /\ enrich_pc = "idle"
    /\ IF query = "raises"
       THEN /\ enrich_pc' = "raised"
            /\ UNCHANGED <<enrich_stats, enrich_tasks, semaphore>>
       ELSE /\ enrich_stats' = [NewEnrichmentStats EXCEPT !.total_publications = n]
            /\ enrich_pc' = IF n = 0 THEN "returned" ELSE "batch"
            /\ enrich_tasks' = TasksOfBatch(enrich_tasks, BatchAfter(0, n))
            /\ semaphore' = IF n = 0 THEN semaphore ELSE max_concurrent
    /\ UNCHANGED <<batch_start, dirty, enriched_rows, exceptEnrich>>

\* enrich_with_semaphore: "async with semaphore"
EnrichAcquire(t) ==
    /\ enrich_pc = "batch"
    /\ enrich_tasks[t].pc = "pending"
    /\ SemaphoreAvailable(semaphore)
    /\ semaphore' = semaphore - 1
    /\ enrich_tasks' = [enrich_tasks EXCEPT ![t].pc = "get_by_id",
                                            ![t].entered = enrich_tasks[t].entered + 1]
    /\ UNCHANGED <<enrich_pc, enrich_stats, batch_start, dirty, enriched_rows,
                   exceptEnrich>>

\* the task is over: its value goes to gather, the semaphore is released
TaskDone(tasks, t, result) ==
    [tasks EXCEPT ![t].pc = "done", ![t].result = result,
                  ![t].value = ReturnValue(result)]

\* the except clause of enrich_single_publication: self.db.rollback()
EnrichRollback(t) ==
    /\ dirty' = {}
    /\ enrich_tasks' = TaskDone(enrich_tasks, t, "exception")
    /\ semaphore' = semaphore + 1
    /\ UNCHANGED enriched_rows

\* publication_repo.get_by_id: the row, no row, or a database error
EnrichGetById(t, outcome) ==
    /\ enrich_tasks[t].pc = "get_by_id"
    /\ CASE outcome = "found" ->
              /\ enrich_tasks' = [enrich_tasks EXCEPT ![t].pc = "fetch"]
              /\ UNCHANGED <<semaphore, dirty, enriched_rows>>
         [] outcome = "missing" ->
              /\ enrich_tasks' = TaskDone(enrich_tasks, t, "not_found")
              /\ semaphore' = semaphore + 1
              /\ UNCHANGED <<dirty, enriched_rows>>
         [] OTHER -> EnrichRollback(t)
    /\ UNCHANGED <<enrich_pc, enrich_stats, batch_start, exceptEnrich>>

\* _fetch_semantic_scholar_data returns data, None for a paper that is not
\* found, or None after an API error it logged; with data _update_publication
\* changes the publication in the session and _update_authors starts
EnrichFetch(t, outcome) ==
    /\ enrich_tasks[t].pc = "fetch"
    /\ IF outcome = "data"
       THEN /\ enrich_tasks' = [enrich_tasks EXCEPT ![t].pc = "update_authors"]
            /\ dirty' = dirty \cup {t}
            /\ UNCHANGED semaphore
       ELSE /\ enrich_tasks' = TaskDone(enrich_tasks, t, outcome)
            /\ semaphore' = semaphore + 1
            /\ UNCHANGED dirty
    /\ UNCHANGED <<enrich_pc, enrich_stats, batch_start, enriched_rows, exceptEnrich>>

\* the rest of _update_authors and self.db.commit(): either raises, and then
\* the except clause rolls back
EnrichCommit(t, outcome) ==
    /\ enrich_tasks[t].pc = "update_authors"
    /\ IF outcome = "ok"
       THEN /\ enriched_rows' = enriched_rows \cup dirty
            /\ dirty' = {}
            /\ enrich_tasks' = TaskDone(enrich_tasks, t, "data")
            /\ semaphore' = semaphore + 1
       ELSE EnrichRollback(t)
    /\ UNCHANGED <<enrich_pc, enrich_stats, batch_start, exceptEnrich>>

\* gather returns: _enrich_batch counts, enrich_publications adds the counts
\* and starts the next batch or returns the stats
EnrichBatchReturn ==
    /\ enrich_pc = "batch"
    /\ \A t \in BatchAfter(batch_start, enrich_stats.total_publications) :
          enrich_tasks[t].pc = "done"
    /\ \E b \in {BatchStats(enrich_tasks,
                            BatchAfter(batch_start, enrich_stats.total_publications))} :
          enrich_stats' =
              [enrich_stats EXCEPT
                  !.enriched_publications = @ + b.enriched,
                  !.failed_publications = @ + b.failed,
                  !.skipped_publications = @ + b.skipped]
    /\ IF batch_start + batch_size < enrich_stats.total_publications
       THEN /\ batch_start' = batch_start + batch_size
            /\ enrich_tasks' =
                  TasksOfBatch(enrich_tasks,
                               BatchAfter(batch_start + batch_size,
                                          enrich_stats.total_publications))
            /\ semaphore' = max_concurrent
            /\ UNCHANGED enrich_pc
       ELSE /\ enrich_pc' = "returned"
            /\ UNCHANGED <<batch_start, enrich_tasks, semaphore>>
    /\ UNCHANGED <<dirty, enriched_rows, exceptEnrich>>

NextEnrich ==
    \/ \E n \in 0..MaxPublications, query \in {"rows", "raises"} :
          EnrichPublications(n, query)
    \/ \E t \in 1..MaxPublications : EnrichAcquire(t)
    \/ \E t \in 1..MaxPublications, outcome \in {"found", "missing", "raises"} :
          EnrichGetById(t, outcome)
    \/ \E t \in 1..MaxPublications, outcome \in {"data", "not_found", "api_error"} :
          EnrichFetch(t, outcome)
    \/ \E t \in 1..MaxPublications, outcome \in {"ok", "raises"} :
          EnrichCommit(t, outcome)
    \/ EnrichBatchReturn

SpecEnrich == InitOn({EmptyDatabase}) /\ [][NextEnrich]_vars

(***************************************************************************)
(* EnrichmentService._fetch_semantic_scholar_data, one call with the       *)
(* calls it makes of itself.                                               *)
(***************************************************************************)
\* sleeps of one call the model follows
MaxSleeps == 3

\* what get_paper_by_arxiv_id and get_paper_by_doi give: the paper, None for a
\* 404, or the exception that leaves the client
GetPaperResults == {"data", None, "RateLimitError", "SemanticScholarError", "RetryError"}

\* the body of the try block starts: the arXiv id first, the DOI as fallback
FetchTry(f) ==
    IF f.arxiv_id THEN [f EXCEPT !.pc = "get_paper_by_arxiv_id"]
    ELSE IF f.doi THEN [f EXCEPT !.pc = "get_paper_by_doi"]
    ELSE [f EXCEPT !.pc = "returned", !.result = None]

\* the except clauses of _fetch_semantic_scholar_data
FetchExcept(f, exception) ==
    IF exception = "RateLimitError"
    THEN [f EXCEPT !.pc = "sleep", !.sleeps = @ + 1]
    ELSE [f EXCEPT !.pc = "returned", !.result = "None after " \o exception]

\* _fetch_semantic_scholar_data(publication), with or without self.client
FetchCall(arxiv_id, doi, client) ==
    /\ fetch.pc = "idle"
    /\ fetch' = IF client = None
                THEN [NoFetch EXCEPT !.pc = "raised", !.result = "EnrichmentError"]
                ELSE FetchTry([NoFetch EXCEPT !.arxiv_id = arxiv_id, !.doi = doi])
    /\ UNCHANGED exceptFetch

\* get_paper_by_arxiv_id answers
FetchByArxivId(answer) ==
    /\ fetch.pc = "get_paper_by_arxiv_id"
    /\ answer = "RateLimitError" => fetch.sleeps < MaxSleeps
    /\ \E f \in {[fetch EXCEPT !.client_calls = @ + 1]} :
          fetch' = IF answer = "data"
                   THEN [f EXCEPT !.pc = "returned", !.result = "data"]
                   ELSE IF answer = None
                   THEN IF f.doi THEN [f EXCEPT !.pc = "get_paper_by_doi"]
                        ELSE [f EXCEPT !.pc = "returned", !.result = None]
                   ELSE FetchExcept(f, answer)
    /\ UNCHANGED exceptFetch

\* get_paper_by_doi answers
FetchByDoi(answer) ==
    /\ fetch.pc = "get_paper_by_doi"
    /\ answer = "RateLimitError" => fetch.sleeps < MaxSleeps
    /\ \E f \in {[fetch EXCEPT !.client_calls = @ + 1]} :
          fetch' = IF answer = "data"
                   THEN [f EXCEPT !.pc = "returned", !.result = "data"]
                   ELSE IF answer = None
                   THEN [f EXCEPT !.pc = "returned", !.result = None]
                   ELSE FetchExcept(f, answer)
    /\ UNCHANGED exceptFetch

\* asyncio.sleep(60) is over: the method calls itself
FetchSleepOver ==
    /\ fetch.pc = "sleep"
    /\ fetch' = FetchTry(fetch)
    /\ UNCHANGED exceptFetch

\* the caller has the result
FetchOver ==
    /\ fetch.pc \in {"returned", "raised"}
    /\ fetch' = NoFetch
    /\ UNCHANGED exceptFetch

NextFetch ==
    \/ \E arxiv_id, doi \in BOOLEAN, client \in {None, "SemanticScholarClient"} :
          FetchCall(arxiv_id, doi, client)
    \/ \E answer \in GetPaperResults : FetchByArxivId(answer)
    \/ \E answer \in GetPaperResults : FetchByDoi(answer)
    \/ FetchSleepOver
    \/ FetchOver

SpecFetch == InitOn({EmptyDatabase}) /\ [][NextFetch]_vars

(***************************************************************************)
(* Whole runs of the pipeline, with the failure of extract and the clock.  *)
(***************************************************************************)
NextRunLevel ==
    \/ NextRun
    \/ \E exception \in ExtractFailures : RunRaises(exception)
    \/ ClockTick

SpecRunLevel == Init /\ [][NextRunLevel]_vars

(***************************************************************************)
(* Vocabulary of the properties.                                           *)
(***************************************************************************)
\* the step before was a load, by run's loop or by a direct call
Loaded == last.op \in {"process", "load"}

\* the transformed data of the step before
Transformed == IF last.op = "process" THEN transform(last.data) ELSE last.data

\* rows of pubs that hold the DOI, the arXiv id
RowsWithDoi(pubs, doi) == {i \in 1..Len(pubs) : pubs[i].doi = doi}
RowsWithArxivId(pubs, arxiv_id) == {i \in 1..Len(pubs) : pubs[i].arxiv_id = arxiv_id}

\* no two rows hold the same non-null DOI, the same non-null arXiv id
DoiPairwiseDistinct(pubs) ==
    \A i, j \in 1..Len(pubs) :
        (i # j /\ pubs[i].doi # None) => pubs[i].doi # pubs[j].doi
ArxivIdPairwiseDistinct(pubs) ==
    \A i, j \in 1..Len(pubs) :
        (i # j /\ pubs[i].arxiv_id # None) => pubs[i].arxiv_id # pubs[j].arxiv_id

\* a text, an identifier that is neither null nor empty
HasText(t) == t # NoneText /\ t # <<>>
HasId(v) == v # None /\ v # ""

Max(a, b) == IF a > b THEN a ELSE b

(***************************************************************************)
(* Properties of the DeduplicationService methods (SpecDedup).             *)
(***************************************************************************)
\* C2: find_duplicate asks for the DOI, then for the arXiv id, then for the title,
\* and answers with the first strategy that finds a row, without running the later
\* ones: a row that holds the candidate's DOI is the answer whatever the arXiv-id
\* and title lookups would find (or raise); with no such row, a row that holds the
\* candidate's arXiv id is the answer; the title decides only when both found none.
C2_TierPrecedence ==
    last.op = "find_duplicate" =>
        LET pubs == committed.pubs
            byDoi == IF HasId(last.data.doi) THEN RowsWithDoi(pubs, last.data.doi)
                     ELSE {}
            byArxiv == IF HasId(last.data.arxiv_id)
                       THEN RowsWithArxivId(pubs, last.data.arxiv_id) ELSE {}
            similar == {i \in 1..Len(pubs) :
                          HasText(pubs[i].titre)
                          /\ FracGE(_calculate_similarity(last.data.titre, pubs[i].titre),
                                    title_similarity_threshold)}
        IN /\ Cardinality(byDoi) = 1 => (last.exc = "" /\ last.found \in byDoi)
           /\ (byDoi = {} /\ Cardinality(byArxiv) = 1) =>
                  (last.exc = "" /\ last.found \in byArxiv)
           /\ (byDoi = {} /\ Cardinality(byArxiv) > 1) =>
                  last.exc = "MultipleResultsFound"
           /\ (byDoi = {} /\ byArxiv = {}) =>
                  /\ last.exc = ""
                  /\ IF similar = {} \/ ~HasText(last.data.titre) THEN last.found = 0
                     ELSE last.found \in similar

\* the candidate's DOI is that of the row found, and its title is that of another
\* row and unlike the title of the row found
C2_Witness ==
    /\ last.op = "find_duplicate"
    /\ last.found # 0
    /\ committed.pubs[last.found].doi = last.data.doi
    /\ \E b \in 1..Len(committed.pubs) :
          /\ b # last.found
          /\ FracGE(_calculate_similarity(last.data.titre, committed.pubs[b].titre),
                    <<1, 1>>)
          /\ ~FracGE(_calculate_similarity(last.data.titre,
                                           committed.pubs[last.found].titre),
                     title_similarity_threshold)

C6_ArxivIdUnique == ArxivIdPairwiseDistinct(committed.pubs)

\* C7: from a corpus whose non-null DOIs are pairwise distinct, after any sequence
\* of loads (insert when find_duplicate finds none, merge into the row found) no
\* two persisted publications hold the same non-null DOI.
C7_DoiUnique == DoiPairwiseDistinct(committed.pubs)

\* a load was refused an insert whose DOI (the empty string, which find_duplicate
\* does not look up) a persisted publication holds
C7_Witness ==
    /\ last.op = "load"
    /\ last.path = "insert"
    /\ last.exc = "IntegrityError"
    /\ RowsWithDoi(committed.pubs, last.data.publication.doi) # {}

\* C8: a load that finds a match and whose should_update is false adds one to
\* papers_skipped, returns None, and writes nothing: the publications, the authors,
\* the themes, both association tables and every other counter are unchanged, in
\* the transaction as in the committed tables.
C8_SkipIsNoOp ==
    [][ (last'.op \in {"process", "load"} /\ last'.path = "skip") =>
          /\ last'.found \in 1..Len(tx.pubs)
          /\ last'.pub = 0
          /\ last'.exc = ""
          /\ tx' = tx
          /\ committed' = committed
          /\ pending' = pending
          /\ stats' = [stats EXCEPT !.papers_skipped = @ + 1]
      ]_vars

\* a load skipped a candidate that came with a theme, for a publication found
C8_Witness ==
    /\ Loaded
    /\ last.path = "skip"
    /\ last.found # 0
    /\ Transformed.themes # <<>>
    /\ stats.papers_skipped = 1

\* C9: a load that inserted or updated a publication created, for each position i
\* of the mapped author list, an association of the publication with ordre = i,
\* and the ordre values of a publication's associations are pairwise distinct.
C9_OrderedAuthorAssociations ==
    /\ (Loaded /\ last.path \in {"insert", "update"}
        /\ last.pub \in 1..Len(committed.pubs)) =>
          \A i \in 1..Len(Transformed.authors) :
              \E x \in committed.pa :
                  /\ x.publication_id = last.pub
                  /\ x.ordre = i
                  /\ x.auteur_id \in 1..Len(committed.auteurs)
                  /\ committed.auteurs[x.auteur_id].nom = Transformed.authors[i].nom
                  /\ committed.auteurs[x.auteur_id].prenom = Transformed.authors[i].prenom
    /\ \A x, y \in committed.pa :
          (x.publication_id = y.publication_id /\ x.ordre = y.ordre) => x = y

\* C10: a load that takes the update path for a publication that already has
\* author and theme associations is not failed by creating the associations again.
C10_AssociationsTolerateReruns ==
    [][ (/\ last'.op \in {"process", "load"}
         /\ last'.path = "update"
         /\ last'.pub # 0
         /\ \E x \in committed.pa : x.publication_id = last'.pub
         /\ \E y \in committed.pt : y.publication_id = last'.pub)
        => last'.exc # "IntegrityError"
      ]_vars

(***************************************************************************)
(* Properties of run (SpecRun).                                            *)
(***************************************************************************)
\* _process_paper(paper) on a session of its own over the persisted corpus
Alone(paper) == _process_paper(Rollback(Sess), paper)

\* the DOI or the arXiv id of the mapped paper is that of a persisted publication
MatchesById(paper) ==
    /\ ~MapPublicationRaises(paper)
    /\ \E i \in 1..Len(committed.pubs) :
          \/ HasId(MapPublication(paper).doi)
             /\ committed.pubs[i].doi = MapPublication(paper).doi
          \/ HasId(MapPublication(paper).arxiv_id)
             /\ committed.pubs[i].arxiv_id = MapPublication(paper).arxiv_id

\* the step processes a paper of a run whose list is the list of the run before
SecondRunOfTheList ==
    /\ last'.op = "process"
    /\ previous # <<>>
    /\ Len(previous) = Len(batch) + remaining
    /\ batch' = SubSeq(previous, 1, Len(batch'))

\* C1: when run processes the same list twice, the second run creates nothing for
\* a paper whose DOI or arXiv id matches an existing row and counts it as updated
\* or skipped; and after any number of runs no two publications hold the same
\* arXiv id.
C1_RerunIdempotence ==
    [][ /\ (SecondRunOfTheList /\ MatchesById(last'.data)) =>
              /\ stats'.papers_created = stats.papers_created
              /\ stats'.papers_updated + stats'.papers_skipped
                    = stats.papers_updated + stats.papers_skipped + 1
        /\ ArxivIdPairwiseDistinct(committed'.pubs)
      ]_vars

\* C4: a paper that raises in transform or load does not make run raise and is
\* counted as one error, and every other paper of the batch is processed and
\* counted as created, updated or skipped as it is on its own.
C4_PartialFailureIsolation ==
    [][ last'.op = "process" =>
          /\ pc' = "running"
          /\ stats'.errors = stats.errors + (IF last'.exc # "" THEN 1 ELSE 0)
          /\ (stats.errors > 0 /\ Alone(last'.data).exc = "") =>
                /\ last'.exc = ""
                /\ stats'.papers_created + stats'.papers_updated + stats'.papers_skipped
                      = stats.papers_created + stats.papers_updated
                        + stats.papers_skipped + 1
      ]_vars

(***************************************************************************)
(* The collector and the clients.                                          *)
(***************************************************************************)
\* the failures of an attempt that are transient: the network, a timeout
Transient == {"ClientError", "TimeoutError"}

\* C11: search and fetch_by_ids make at most 3 attempts; an attempt that fails
\* with a transient network or timeout error is followed by another attempt
\* until the third, whose failure reaches the caller; an attempt that fails on a
\* malformed response is followed by no other attempt
C11_RetryPolicy ==
    \A t \in Callers :
        /\ calls[t].attempt <= stop_after_attempt
        /\ calls[t].pc = "wait" => calls[t].cause \in Transient
        /\ (calls[t].pc = "raised" /\ calls[t].cause \in Transient) =>
              calls[t].attempt = stop_after_attempt
        /\ (calls[t].pc = "raised" /\ calls[t].cause = "ParseError") =>
              calls[t].outcome = "ArxivAPIError"

\* C12: a task that is inside _make_request, before or after the request left,
\* has acquired the limiter in the same attempt, and no task has sent more
\* requests than it made acquisitions
C12_LimiterBeforeNetwork ==
    \A t \in Callers :
        /\ calls[t].pc \in {"make_request", "response"} =>
              calls[t].acquired = calls[t].attempt
        /\ calls[t].sent <= calls[t].acquired

\* the request of a retry has left while another task waits for the limiter
C12_Witness ==
    \E t, u \in Callers :
        /\ calls[t].pc = "response"
        /\ calls[t].attempt = stop_after_attempt
        /\ calls[t].sent = stop_after_attempt
        /\ calls[u].pc = "limiter"
        /\ rate_limiter = rate_limit_requests

\* the handle and the pool of each client exist exactly inside its bracket
HandlesFollowBrackets ==
    /\ bracket = "outside" => (_session = None /\ sessions_open = 0)
    /\ bracket # "outside" => (_session # None /\ sessions_open = 1)
    /\ client_bracket = "outside" => (_client = None /\ clients_open = 0)
    /\ client_bracket # "outside" => (_client # None /\ clients_open = 1)

\* a step of a call outside the bracket sends nothing, and the check of the
\* handle that _make_request starts with fails there: "not initialized"
NoRequestOutsideBrackets ==
    /\ \A t \in Callers :
          (bracket = "outside" /\ calls'[t] # calls[t]) =>
              /\ calls'[t].sent = calls[t].sent \/ calls'[t].pc = "idle"
              /\ calls[t].pc = "make_request" =>
                    /\ calls'[t].pc = "raised"
                    /\ calls'[t].cause = "Session not initialized"
                    /\ calls'[t].outcome = "ArxivCollectorError"
    /\ \A t \in Callers :
          (client_bracket = "outside" /\ requests'[t] # requests[t]) =>
              /\ requests'[t].pc # "response"
              /\ requests[t].pc = "start" =>
                    /\ requests'[t].pc = "raised"
                    /\ requests'[t].cause = "Client not initialized"
                    /\ requests'[t].outcome = "SemanticScholarError"

\* C13: for ArxivCollector (also through ArxivPipeline) and
\* SemanticScholarClient (also through EnrichmentService) the session exists
\* only between enter and exit; after every exit, normal or by exception, it is
\* closed and the handle is None; a request made outside the bracket fails with
\* the "not initialized" error and nothing is sent
C13_ScopedClientLifecycle == []HandlesFollowBrackets /\ [][NoRequestOutsideBrackets]_vars

\* both brackets were entered and left, the collector's call had sent a request
\* inside the bracket and its retry found the session gone, and the call of the
\* Semantic Scholar client found no client
C13_Witness ==
    /\ bracket = "outside"
    /\ client_bracket = "outside"
    /\ calls[1].sent >= 1
    /\ calls[1].cause = "Session not initialized"
    /\ requests[1].attempt >= 2
    /\ requests[1].cause = "Client not initialized"

\* entries of request_times inside the window that ends now
InWindow == {i \in DOMAIN request_times : request_times[i] > clock - WindowTicks}

\* the tasks inside "async with self._rate_limit_lock"
InsideLock == {t \in Callers : requests[t].pc \in {"window", "sleep"}}

\* C16: at most one caller at a time is inside the lock that guards the
\* prune-check-append of request_times, and at no instant does the window of
\* RATE_LIMIT_WINDOW that ends there hold more than rate_limit_requests
\* admitted calls
C16_SlidingWindowUnderConcurrency ==
    /\ Cardinality(InsideLock) <= 1
    /\ \A t \in InsideLock : _rate_limit_lock = t
    /\ Cardinality(InWindow) <= client_rate_limit_requests

\* one caller was admitted after it slept under the lock, the window is full
\* again and another caller sleeps under the lock
C16_Witness ==
    /\ Cardinality(InWindow) = client_rate_limit_requests
    /\ \E t, u \in Callers :
          /\ requests[t].pc = "returned"
          /\ requests[t].wake > 0
          /\ requests[u].pc = "sleep"
          /\ _rate_limit_lock = u

\* C19: a 404 is never retried and the get_paper methods return None for it; a
\* timeout or network error is retried up to 3 attempts and raised after the
\* third; a 429 and the other API errors are raised without retry; every
\* attempt passes the rate limiter before its request
C19_ClientErrorMapping ==
    \A t \in Callers :
        /\ requests[t].attempt <= stop_after_attempt
        /\ requests[t].cause = "404" =>
              (requests[t].pc = "returned" /\ requests[t].outcome = None)
        /\ requests[t].pc = "wait" =>
              requests[t].cause \in {"TimeoutException", "NetworkError"}
        /\ (requests[t].pc = "raised"
            /\ requests[t].cause \in {"TimeoutException", "NetworkError"}) =>
              (requests[t].attempt = stop_after_attempt
               /\ requests[t].outcome = "RetryError")
        /\ requests[t].cause = "429" =>
              (requests[t].pc = "raised" /\ requests[t].outcome = "RateLimitError")
        /\ requests[t].cause \in {"500", "InvalidJSON"} =>
              (requests[t].pc = "raised"
               /\ requests[t].outcome = "SemanticScholarError")
        /\ requests[t].pc \in {"get", "response"} =>
              requests[t].passed = requests[t].attempt

\* the third attempt timed out after it slept in the limiter, and the error
\* reached the caller
C19_Witness ==
    /\ requests[1].pc = "raised"
    /\ requests[1].cause = "TimeoutException"
    /\ requests[1].passed = stop_after_attempt
    /\ requests[1].outcome = "RetryError"
    /\ \E i \in DOMAIN request_times : request_times[i] >= WindowTicks

(***************************************************************************)
(* The enrichment service.                                                 *)
(***************************************************************************)
\* the enrich_single_publication calls in progress
InProgress ==
    {t \in 1..MaxPublications :
        enrich_tasks[t].pc \in {"get_by_id", "fetch", "update_authors"}}

\* the publication was processed, once
ProcessedOnce(t) == enrich_tasks[t].pc = "done" /\ enrich_tasks[t].entered = 1

\* C15: at every instant of _enrich_batch at most max_concurrent calls of
\* enrich_single_publication are in progress, whatever the order in which they
\* end, and when a batch has returned every publication of it was processed
\* exactly once
C15_ConcurrencyCap ==
    /\ Cardinality(InProgress) <= max_concurrent
    /\ \A t \in 1..MaxPublications : enrich_tasks[t].entered <= 1
    /\ \A t \in 1..batch_start : ProcessedOnce(t)
    /\ enrich_pc = "returned" =>
          \A t \in 1..enrich_stats.total_publications : ProcessedOnce(t)

\* max_concurrent calls are in progress, the first task of the batch among
\* them, while a task gather created before one of them waits for the semaphore
C15_Witness ==
    /\ enrich_pc = "batch"
    /\ Cardinality(InProgress) = max_concurrent
    /\ 1 \in InProgress
    /\ \E t, u \in 1..MaxPublications :
          /\ t < u
          /\ enrich_tasks[t].pc = "pending"
          /\ u \in InProgress

C18_FailuresAreCounted ==
    (/\ enrich_pc = "returned"
     /\ \E t \in 1..enrich_stats.total_publications :
           enrich_tasks[t].result \in {"api_error", "exception"}) =>
        /\ enrich_stats.failed_publications >= 1
        /\ enrich_stats.enriched_publications + enrich_stats.failed_publications
              + enrich_stats.skipped_publications = enrich_stats.total_publications

\* C14: on a rate-limit answer _fetch_semantic_scholar_data sleeps the cooldown
\* and retries once; when the retry is rate-limited too there is no other sleep
\* and no other retry: one call sleeps at most once and asks the client for
\* each identifier at most twice
C14_BoundedRateLimitRecovery ==
    /\ fetch.sleeps <= 1
    /\ fetch.client_calls <= 4

(***************************************************************************)
(* Whole runs.                                                             *)
(***************************************************************************)
\* start_time and end_time are set, in this order
TimesSet ==
    /\ run_times.start_time # <<>>
    /\ run_times.end_time # <<>>
    /\ run_times.start_time[1] <= run_times.end_time[1]

\* C20: run raises ArxivPipelineError only when extract failed; a run whose
\* extract succeeded returns the stats whatever happened to its papers; on both
\* paths start_time and end_time are set, and end_time is not set while papers
\* remain to be attempted
C20_RunLevelPropagation ==
    /\ run_result = "ArxivPipelineError" =>
          /\ last.op = "run"
          /\ last.exc \in ExtractFailures
          /\ batch = <<>>
          /\ TimesSet
    /\ run_result = "stats" =>
          /\ remaining = 0
          /\ Len(batch) = stats.papers_collected
          /\ TimesSet
    /\ pc = "running" =>
          /\ run_result = ""
          /\ run_times.start_time # <<>>
          /\ run_times.end_time = <<>>
    /\ pc = "idle" => run_result \in {"", "stats", "ArxivPipelineError"}

\* a run of two papers or more, started after the clock had moved, returned
\* its stats later than it started although a paper of it failed
C20_Witness ==
    /\ run_result = "stats"
    /\ pc = "idle"
    /\ stats.errors >= 1
    /\ stats.papers_collected >= 2
    /\ run_times.end_time[1] > run_times.start_time[1]
    /\ run_times.start_time[1] > 0

(***************************************************************************)
(* SchedulerManager: add_job and remove_job on an AsyncIOScheduler whose   *)
(* 'default' executor is a thread pool, the triggers that fire and the     *)
(* invocations that run.                                                   *)
(***************************************************************************)
\* trigger firings in one behaviour
MaxFires == 3

\* tentative jobs a scheduler that is not running is given
MaxPending == 2

\* the callables handed to add_job: dummy_job is a plain function, slow_job
\* a coroutine function
Funcs ==
    {[name |-> "dummy_job", coroutine |-> FALSE],
     [name |-> "slow_job", coroutine |-> TRUE]}

\* JOB_DEFAULTS['max_instances']
max_instances == 1

\* scheduler.add_job(func, trigger, id, name, replace_existing=True): the Job
\* object, with the job defaults
Job(func, job_id) ==
    [id |-> job_id, func |-> func.name, coroutine |-> func.coroutine,
     max_instances |-> max_instances]

\* the rows of a store that have the id
RowsWithJobId(store, job_id) == {i \in DOMAIN store : store[i].id = job_id}

\* _real_add_job with replace_existing: store.add_job, and store.update_job on
\* the ConflictingIdError
RealAddJob(store, job) ==
    IF RowsWithJobId(store, job.id) # {}
    THEN [i \in DOMAIN store |-> IF store[i].id = job.id THEN job ELSE store[i]]
    ELSE Append(store, job)

\* scheduler.start: the tentative jobs are added in the order they came
RECURSIVE RealAddJobsFrom(_, _, _)
RealAddJobsFrom(store, tentative, i) ==
    IF i > Len(tentative) THEN store
    ELSE RealAddJobsFrom(RealAddJob(store, tentative[i]), tentative, i + 1)

\* a sequence without its i-th element
Without(seq, i) == [k \in 1..(Len(seq) - 1) |-> IF k < i THEN seq[k] ELSE seq[k + 1]]

\* BaseExecutor.submit_job: the check that raises MaxInstancesReachedError
MaxInstancesNeverReached(instances, job) == FALSE
MaxInstancesReached(instances, job) == instances >= job.max_instances

\* SchedulerManager.initialize: a new scheduler on the job store
SchedInitialize ==
    /\ scheduler = None
    /\ scheduler' = "stopped"
    /\ _pending_jobs' = <<>>
    /\ sched_exc' = ""
    /\ UNCHANGED <<jobstore, _jobs_registry, _instances, invocations, fires,
                   sched_events, exceptSched>>

\* SchedulerManager.start
SchedStart ==
    /\ IF scheduler = None
       THEN /\ sched_exc' = "RuntimeError"
            /\ UNCHANGED <<scheduler, jobstore, _pending_jobs>>
       ELSE /\ scheduler = "stopped"
            /\ scheduler' = "running"
            /\ jobstore' = RealAddJobsFrom(jobstore, _pending_jobs, 1)
            /\ _pending_jobs' = <<>>
            /\ sched_exc' = ""
    /\ sched_exc' # sched_exc \/ scheduler' # scheduler
    /\ UNCHANGED <<_jobs_registry, _instances, invocations, fires, sched_events,
                   exceptSched>>

\* SchedulerManager.shutdown(wait=True): returns when the running jobs are over
SchedShutdown ==
    /\ scheduler = "running"
    /\ invocations = <<>>
    /\ scheduler' = "shutdown"
    /\ sched_exc' = ""
    /\ UNCHANGED <<_pending_jobs, jobstore, _jobs_registry, _instances, invocations,
                   fires, sched_events, exceptSched>>

\* the process ends and a new one starts: the job store is what stays
SchedRestart ==
    /\ scheduler \in {"running", "shutdown"}
    /\ scheduler' = None
    /\ _pending_jobs' = <<>>
    /\ _jobs_registry' = {}
    /\ _instances' = [id \in JobIds |-> 0]
    /\ invocations' = <<>>
    /\ sched_events' = {}
    /\ sched_exc' = ""
    /\ UNCHANGED <<jobstore, fires, exceptSched>>

\* SchedulerManager.add_job
AddJob(func, trigger, job_id) ==
    /\ IF scheduler = None
       THEN /\ sched_exc' = "RuntimeError"
            /\ UNCHANGED <<_pending_jobs, jobstore, _jobs_registry>>
       ELSE IF trigger \notin {"cron", "interval"}
       THEN /\ sched_exc' = "ValueError"
            /\ UNCHANGED <<_pending_jobs, jobstore, _jobs_registry>>
       ELSE /\ IF scheduler = "running"
               THEN /\ jobstore' = RealAddJob(jobstore, Job(func, job_id))
                    /\ UNCHANGED _pending_jobs
               ELSE /\ _pending_jobs' = Append(_pending_jobs, Job(func, job_id))
                    /\ UNCHANGED jobstore
            /\ _jobs_registry' = _jobs_registry \cup {job_id}
            /\ sched_exc' = ""
    /\ Len(_pending_jobs') <= MaxPending
    /\ UNCHANGED <<scheduler, _instances, invocations, fires, sched_events,
                   exceptSched>>

\* SchedulerManager.remove_job: scheduler.remove_job raises JobLookupError
\* when no job has the id, and then the registry keeps its key
RemoveJob(job_id) ==
    /\ scheduler # None
    /\ IF scheduler = "running"
       THEN IF RowsWithJobId(jobstore, job_id) = {}
            THEN /\ sched_exc' = "JobLookupError"
                 /\ UNCHANGED <<jobstore, _jobs_registry>>
            ELSE /\ jobstore' = SelectSeq(jobstore, LAMBDA job : job.id # job_id)
                 /\ _jobs_registry' = _jobs_registry \ {job_id}
                 /\ sched_exc' = ""
       ELSE /\ RowsWithJobId(_pending_jobs, job_id) = {}
            /\ sched_exc' = "JobLookupError"
            /\ UNCHANGED <<jobstore, _jobs_registry>>
    /\ UNCHANGED <<scheduler, _pending_jobs, _instances, invocations, fires,
                   sched_events, exceptSched>>

\* remove_job on a scheduler that is not running: the first tentative job
\* with the id goes
RemovePendingJob(job_id) ==
    /\ scheduler \in {"stopped", "shutdown"}
    /\ RowsWithJobId(_pending_jobs, job_id) # {}
    /\ \E i \in RowsWithJobId(_pending_jobs, job_id) :
          /\ \A k \in RowsWithJobId(_pending_jobs, job_id) : i <= k
          /\ _pending_jobs' = Without(_pending_jobs, i)
    /\ _jobs_registry' = _jobs_registry \ {job_id}
    /\ sched_exc' = ""
    /\ UNCHANGED <<scheduler, jobstore, _instances, invocations, fires,
                   sched_events, exceptSched>>

\* the trigger of a job fires: _process_jobs hands the job to the executor,
\* which refuses it or counts it and submits run_job to the pool. run_job
\* calls the function: the body of a plain function runs in the pool thread,
\* the call of a coroutine function only makes the coroutine object
TriggerFires(job_id) ==
    /\ scheduler = "running"
    /\ fires < MaxFires
    /\ fires' = fires + 1
    /\ \E i \in RowsWithJobId(jobstore, job_id) :
          IF MaxInstancesReached(_instances[job_id], jobstore[i])
          THEN /\ sched_events' =
                     sched_events \cup {<<"EVENT_JOB_MAX_INSTANCES", job_id>>}
               /\ UNCHANGED <<_instances, invocations>>
          ELSE /\ _instances' = [_instances EXCEPT ![job_id] = @ + 1]
               /\ invocations' =
                     Append(invocations,
                            [job_id |-> job_id, func |-> jobstore[i].func,
                             body |-> ~jobstore[i].coroutine])
               /\ UNCHANGED sched_events
    /\ UNCHANGED <<scheduler, _pending_jobs, jobstore, _jobs_registry, sched_exc,
                   exceptSched>>

\* run_job returns: _run_job_success counts the instance down and
\* EVENT_JOB_EXECUTED is dispatched
JobDone(i) ==
    /\ i \in DOMAIN invocations
    /\ _instances' = [_instances EXCEPT ![invocations[i].job_id] = @ - 1]
    /\ invocations' = Without(invocations, i)
    /\ sched_events' =
          sched_events \cup {<<"EVENT_JOB_EXECUTED", invocations[i].job_id>>}
    /\ UNCHANGED <<scheduler, _pending_jobs, jobstore, _jobs_registry, fires,
                   sched_exc, exceptSched>>

NextSched ==
    \/ SchedInitialize
    \/ SchedStart
    \/ SchedShutdown
    \/ SchedRestart
    \/ \E func \in Funcs, trigger \in {"cron", "interval", "date"}, job_id \in JobIds :
          AddJob(func, trigger, job_id)
    \/ \E job_id \in JobIds : RemoveJob(job_id)
    \/ \E job_id \in JobIds : RemovePendingJob(job_id)
    \/ \E job_id \in JobIds : TriggerFires(job_id)
    \/ \E i \in 1..MaxFires : JobDone(i)

SpecSched == InitOn({EmptyDatabase}) /\ [][NextSched]_vars

\* the invocations of a job id that are running
RunningOf(job_id) == {i \in DOMAIN invocations : invocations[i].job_id = job_id}

\* C21: at most one running instance per job. For every job id, never more
\* than max_instances = 1 invocation submitted by the executor is running, so
\* a trigger that fires while the previous invocation runs starts none; and
\* the job store never holds two jobs with one id: adding a job whose id is
\* in the store replaces the row, whether the add came while the scheduler
\* was running or was one of several tentative adds made before start.
C21_OneInstancePerJob ==
    \A job_id \in JobIds :
       /\ Cardinality(RunningOf(job_id)) <= max_instances
       /\ _instances[job_id] = Cardinality(RunningOf(job_id))
       /\ Cardinality(RowsWithJobId(jobstore, job_id)) <= 1

\* a trigger of a job fired while the body of its previous invocation was
\* running and was refused, and the job had been added again meanwhile with
\* another function, which replaced the row
C21_Witness ==
    \E job_id \in JobIds :
       /\ <<"EVENT_JOB_MAX_INSTANCES", job_id>> \in sched_events
       /\ \E i \in RunningOf(job_id) :
             /\ invocations[i].body
             /\ \E r \in RowsWithJobId(jobstore, job_id) :
                   jobstore[r].func # invocations[i].func
       /\ Len(jobstore) = 2

(***************************************************************************)
(* One call of DeduplicationService._find_by_title_similarity on a corpus  *)
(* whose titles are near the threshold.                                    *)
(***************************************************************************)
\* publications of a corpus at most
MaxTitleRows == 2

TitleDeep ==
    <<"d", "e", "e", "p", " ", "l", "e", "a", "r", "n", "i", "n", "g", " ", "f", "o", "r", " ", "n", "l">>
TitleDeepCased ==
    <<" ", "D", "e", "e", "p", " ", "L", "e", "a", "r", "n", "i", "n", "g", " ", "f", "o", "r", " ", "N", "L">>
TitleDeepNlp ==
    <<"d", "e", "e", "p", " ", "l", "e", "a", "r", "n", "i", "n", "g", " ", "f", "o", "r", " ", "n", "l", "p">>
TitleDeepMl ==
    <<"d", "e", "e", "p", " ", "l", "e", "a", "r", "n", "i", "n", "g", " ", "f", "o", "r", " ", "m", "l">>
TitleDeepCv ==
    <<"d", "e", "e", "p", " ", "l", "e", "a", "r", "n", "i", "n", "g", " ", "f", "o", "r", " ", "c", "v">>

\* titles of existing publications: unset, empty, blank, short, and long ones
\* that differ from one another by a letter or two
CorpusTitles ==
    {NoneText, <<>>, <<" ">>, TitleB, TitleDeep, TitleDeepCased, TitleDeepNlp,
     TitleDeepMl, TitleDeepCv}

\* candidate titles
CandidateTitles == {<<>>, TitleB, TitleDeep, TitleDeepNlp, TitleDeepCv}

\* corpora of up to MaxTitleRows publications
RECURSIVE TitleTables(_)
TitleTables(n) ==
    IF n = 0 THEN {<<>>}
    ELSE TitleTables(n - 1) \cup
         {Append(pubs, Pub(t, NoneText, None, None, None, 0)) :
             pubs \in {p \in TitleTables(n - 1) : Len(p) = n - 1}, t \in CorpusTitles}

TitleCorpora == {Database(pubs, <<>>, <<>>, {}, {}) : pubs \in TitleTables(MaxTitleRows)}

\* _find_by_title_similarity(db, titre): the SELECT sees the session's rows
FindByTitleSimilarityCall(titre) ==
    /\ call.op = "none"
    /\ call' = [op |-> "_find_by_title_similarity", args |-> <<titre>>,
                result |-> <<_find_by_title_similarity(tx.pubs, titre)>>]
    /\ UNCHANGED <<was_positive, exceptCall>>

NextTitle == \E titre \in CandidateTitles : FindByTitleSimilarityCall(titre)

SpecTitle == InitOn(TitleCorpora) /\ [][NextTitle]_vars

\* the rows with a non-empty title
Titled(pubs) == {i \in 1..Len(pubs) : TruthyText(pubs[i].titre)}

\* row i attains the maximum similarity to titre among the titled rows
AttainsMaximum(pubs, titre, i) ==
    \A j \in Titled(pubs) :
       FracGE(_calculate_similarity(titre, pubs[i].titre),
              _calculate_similarity(titre, pubs[j].titre))

MaxSelectRows == 2

\* citation counts Semantic Scholar reports at most
MaxCitations == 2

\* tables of up to MaxSelectRows publications; the unique index on doi holds
RECURSIVE SelectTables(_)
SelectTables(n) ==
    IF n = 0 THEN {<<>>}
    ELSE SelectTables(n - 1) \cup
         {Append(pubs, Pub(TitleB, NoneText, d, x, None, c)) :
             pubs \in {p \in SelectTables(n - 1) : Len(p) = n - 1},
             d \in {None, "", Doi1, DoiJ}, x \in {None, "", Id1}, c \in {0, 2}}

SelectCorpora ==
    {Database(pubs, <<>>, <<>>, {}, {}) :
        pubs \in {p \in SelectTables(MaxSelectRows) : UniqueDoi(p)}}

\* the publication_ids argument: <<>> for None, <<list>> for a list; 9 is
\* the id of no publication
PublicationIds == {<<>>, <<<<>>>>, <<<<1>>>>, <<<<2, 1>>>>, <<<<2, 2>>>>, <<<<9>>>>}

\* "if publication_ids:"
PublicationIdsGiven(publication_ids) ==
    publication_ids # <<>> /\ publication_ids[1] # <<>>

\* query.where(Publication.id.in_(publication_ids))
WhereIdIn(pubs, rows, publication_ids) ==
    {i \in rows : \E k \in DOMAIN publication_ids[1] : publication_ids[1][k] = i}

\* query.where(arxiv_id IS NOT NULL OR doi IS NOT NULL)
WhereHasIdentifier(pubs, rows) ==
    {i \in rows : pubs[i].arxiv_id # None \/ pubs[i].doi # None}

\* query.where(Publication.nombre_citations == 0)
KeepAll(pubs, rows) == rows
WhereNotEnriched(pubs, rows) == {i \in rows : pubs[i].nombre_citations = 0}

\* the rows the query of _get_publications_to_enrich returns
_get_publications_to_enrich(pubs, publication_ids, force_update) ==
    IF force_update
    THEN WhereHasIdentifier(pubs,
            IF PublicationIdsGiven(publication_ids)
            THEN WhereIdIn(pubs, DOMAIN pubs, publication_ids) ELSE DOMAIN pubs)
    ELSE WhereNotEnriched(pubs,
            WhereHasIdentifier(pubs,
               IF PublicationIdsGiven(publication_ids)
               THEN WhereIdIn(pubs, DOMAIN pubs, publication_ids) ELSE DOMAIN pubs))

\* what the steps of this component leave alone
exceptTablesAndCall ==
    <<pending, session, stats, pc, remaining, batch, previous, loads, last, runVars,
      collectorVars, clientVars, enrichVars, fetch, schedVars>>

\* one call of _get_publications_to_enrich
GetPublicationsToEnrich(publication_ids, force_update) ==
    /\ call' = [op |-> "_get_publications_to_enrich",
                args |-> <<publication_ids, force_update>>,
                result |-> _get_publications_to_enrich(tx.pubs, publication_ids,
                                                       force_update)]
    /\ UNCHANGED <<committed, tx, was_positive, exceptTablesAndCall>>

\* enrich_single_publication(id) that succeeds: the publication has an arXiv
\* id or a DOI to look up, _update_publication writes the citation count
\* Semantic Scholar reports, whatever the count was, and the commit follows
EnrichSinglePublication(id, citation_count) ==
    /\ id \in DOMAIN tx.pubs
    /\ Truthy(tx.pubs[id].arxiv_id) \/ Truthy(tx.pubs[id].doi)
    /\ tx' = [tx EXCEPT !.pubs[id].nombre_citations = citation_count]
    /\ committed' = tx'
    /\ was_positive' = IF citation_count > 0 THEN was_positive \cup {id}
                       ELSE was_positive
    /\ call' = [op |-> "enrich_single_publication", args |-> <<id>>,
                result |-> citation_count]
    /\ UNCHANGED exceptTablesAndCall

NextSelect ==
    \/ \E publication_ids \in PublicationIds, force_update \in BOOLEAN :
          GetPublicationsToEnrich(publication_ids, force_update)
    \/ \E id \in 1..MaxSelectRows, citation_count \in 0..MaxCitations :
          EnrichSinglePublication(id, citation_count)

SpecSelect == InitOn(SelectCorpora) /\ [][NextSelect]_vars

\* the ids of a publication_ids list
ListedIds(publication_ids) ==
    {publication_ids[1][k] : k \in DOMAIN publication_ids[1]}

MaxNameLen == 4

\* the characters names are made of
NameChars == {"J", "s", " ", "\t"}

\* the names of up to n characters
RECURSIVE NamesUpTo(_)
NamesUpTo(n) ==
    IF n = 0 THEN {<<>>}
    ELSE NamesUpTo(n - 1) \cup
         {Append(name, c) : name \in {m \in NamesUpTo(n - 1) : Len(m) = n - 1},
                            c \in NameChars}

\* ArxivToAuteurMapper._parse_name(full_name)
ParseNameCall(full_name) ==
    /\ call.op = "none"
    /\ call' = [op |-> "_parse_name", args |-> <<full_name>>,
                result |-> _parse_name(full_name)]
    /\ UNCHANGED <<was_positive, exceptCall>>

\* category codes of a paper at most
MaxCategories == 3

\* the codes papers carry: two that map to themes of their own, one more, and
\* one the table does not have
CategoryCodes == {"cs.LG", "stat.ML", "cs.AI", "unknown.CAT"}

\* the lists of up to n codes
RECURSIVE CategoryLists(_)
CategoryLists(n) ==
    IF n = 0 THEN {<<>>}
    ELSE CategoryLists(n - 1) \cup
         {Append(categories, c) :
             categories \in {l \in CategoryLists(n - 1) : Len(l) = n - 1},
             c \in CategoryCodes}

\* ArxivCategoryMapper.map_categories(categories)
MapCategoriesCall(categories) ==
    /\ call.op = "none"
    /\ call' = [op |-> "map_categories", args |-> <<categories>>,
                result |-> map_categories(categories)]
    /\ UNCHANGED <<was_positive, exceptCall>>

\* a DOI the publisher supplied, with blanks around it
DoiBlanks == " 10.1234/j "

\* papers as _parse_entry builds them: the id None, empty or set, the DOI None
\* or the text of the arxiv:doi element, title and summary None when the
\* element has no text
MapperPapers ==
    {Paper(id, title, summary, doi, <<>>, <<>>) :
        id \in {None, "", Id1, Id2}, title \in {TitleA2, <<>>, NoneText},
        summary \in {Abs1, NoneText}, doi \in {None, Doi1, DoiJ, DoiBlanks}}

\* ArxivToPublicationMapper.map(arxiv_paper): the dict, or the exception
MapPublicationCall(arxiv_paper) ==
    /\ call.op = "none"
    /\ call' = [op |-> "ArxivToPublicationMapper.map", args |-> <<arxiv_paper>>,
                result |-> IF MapPublicationRaises(arxiv_paper)
                           THEN <<"AttributeError">>
                           ELSE <<"dict", MapPublication(arxiv_paper)>>]
    /\ UNCHANGED <<was_positive, exceptCall>>

\* the prefixes an arXiv id comes with
PrefixArXiv == <<"a", "r", "X", "i", "v", ":">>
PrefixArxiv == <<"a", "r", "x", "i", "v", ":">>

\* bare arXiv ids, shortened
BareIds == {<<"2", "4", ".", "1">>, <<"2", "3", "0", "9">>}

\* ids as callers give them: bare or prefixed, with or without blanks around
ArxivIdInputs ==
    {pre \o bare \o post :
        pre \in {<<>>, <<" ">>, PrefixArXiv, PrefixArxiv, <<" ">> \o PrefixArXiv,
                 PrefixArxiv \o PrefixArxiv},
        bare \in BareIds \cup {<<>>}, post \in {<<>>, <<" ">>}}

\* str.startswith
StartsWith(t, prefix) ==
    Len(t) >= Len(prefix) /\ SubSeq(t, 1, Len(prefix)) = prefix

RECURSIVE Remove(_, _)
\* str.replace(old, ''): every occurrence of old goes, left to right
Remove(t, old) ==
    IF t = <<>> THEN <<>>
    ELSE IF StartsWith(t, old) THEN Remove(SubSeq(t, Len(old) + 1, Len(t)), old)
    ELSE <<Head(t)>> \o Remove(Tail(t), old)

\* PublicationBase.arxiv_id_format, the validator of the field that is stored
arxiv_id_format(v) ==
    IF v = NoneText THEN NoneText
    ELSE IF Strip(v) = <<>> THEN NoneText
    ELSE IF StartsWith(Strip(v), PrefixArXiv)
    THEN SubSeq(Strip(v), 7, Len(Strip(v)))
    ELSE Strip(v)

\* get_paper_by_arxiv_id: "Clean arXiv ID (remove prefix if present)", the id
\* the lookup uses
CleanArxivId(arxiv_id) == Strip(Remove(arxiv_id, PrefixArxiv))

\* a publication schema is validated
ArxivIdFormatCall(v) ==
    /\ call.op = "none"
    /\ call' = [op |-> "arxiv_id_format", args |-> <<v>>, result |-> arxiv_id_format(v)]
    /\ UNCHANGED <<was_positive, exceptCall>>

\* get_paper_by_arxiv_id builds its endpoint
CleanArxivIdCall(arxiv_id) ==
    /\ call.op = "none"
    /\ call' = [op |-> "get_paper_by_arxiv_id", args |-> <<arxiv_id>>,
                result |-> CleanArxivId(arxiv_id)]
    /\ UNCHANGED <<was_positive, exceptCall>>

\* entries of a page at most
MaxEntries == 3

\* entry.find(...) found no element
NoElement == <<"no element">>

\* an atom:entry: for each child the text of the element, NoneText for an
\* element without text, NoElement for a missing one
Entry(id, title, summary, doi) ==
    [id |-> id, title |-> title, summary |-> summary, doi |-> doi]

\* entries that parse and entries that do not
Entries ==
    {Entry(<<"a", "/", "1">>, <<" ", "T", " ">>, <<"s">>, NoElement),
     Entry(<<"2">>, <<"U">>, <<"s">>, <<"1", "0", ".", "1">>),
     Entry(NoElement, NoElement, NoElement, NoneText),
     Entry(<<"a", "/", "3">>, NoneText, <<"s">>, NoElement),
     Entry(NoneText, <<"T">>, <<"s">>, NoElement),
     Entry(<<"a", "/", "4">>, <<"T">>, NoneText, NoElement)}

\* the pages of up to n entries
RECURSIVE EntryLists(_)
EntryLists(n) ==
    IF n = 0 THEN {<<>>}
    ELSE EntryLists(n - 1) \cup
         {Append(entries, e) :
             entries \in {l \in EntryLists(n - 1) : Len(l) = n - 1}, e \in Entries}

\* the content of a response: XML that parses, with its entries, or not
Pages ==
    {[well_formed |-> TRUE, entries |-> entries] : entries \in EntryLists(MaxEntries)}
    \cup {[well_formed |-> FALSE, entries |-> <<>>]}

RECURSIVE LastSegment(_)
\* text.split('/')[-1]
LastSegment(t) ==
    IF \E i \in DOMAIN t : t[i] = "/"
    THEN LastSegment(SubSeq(t, (CHOOSE i \in DOMAIN t : t[i] = "/") + 1, Len(t)))
    ELSE t

\* _parse_entry raises inside its try block: .text.split or .text.strip on
\* an element without text
ParseEntryRaises(entry) ==
    entry.id = NoneText \/ entry.title = NoneText \/ entry.summary = NoneText

\* ArxivCollector._parse_entry: the paper dict as <<paper>>, or <<>> for the
\* None returned after the exception was logged
_parse_entry(entry) ==
    IF ParseEntryRaises(entry) THEN <<>>
    ELSE <<[id |-> IF entry.id = NoElement THEN NoneText ELSE LastSegment(entry.id),
          title |-> IF entry.title = NoElement THEN <<>> ELSE Strip(entry.title),
          summary |-> IF entry.summary = NoElement THEN <<>> ELSE Strip(entry.summary),
          doi |-> IF entry.doi = NoElement THEN NoneText ELSE entry.doi]>>

RECURSIVE ParseEntriesUntilFailure(_)
\* the loop of _parse_response without the try block of _parse_entry
ParseEntriesUntilFailure(entries) ==
    IF entries = <<>> \/ ParseEntryRaises(Head(entries)) THEN <<>>
    ELSE _parse_entry(Head(entries)) \o ParseEntriesUntilFailure(Tail(entries))

RECURSIVE ParseEntries(_)
\* the loop of _parse_response: "if paper: papers.append(paper)"
ParseEntries(entries) ==
    IF entries = <<>> THEN <<>>
    ELSE (IF _parse_entry(Head(entries)) # <<>>
          THEN <<_parse_entry(Head(entries))[1]>> ELSE <<>>)
         \o ParseEntries(Tail(entries))

\* ArxivCollector._parse_response: the papers, or ArxivAPIError for ET.ParseError
_parse_response(xml_content) ==
    IF xml_content.well_formed THEN <<"papers", ParseEntries(xml_content.entries)>>
    ELSE <<"ArxivAPIError">>

\* one call of _parse_response
ParseResponseCall(xml_content) ==
    /\ call.op = "none"
    /\ call' = [op |-> "_parse_response", args |-> <<xml_content>>,
                result |-> _parse_response(xml_content)]
    /\ UNCHANGED <<was_positive, exceptCall>>

NextCalls ==
    \/ \E full_name \in NamesUpTo(MaxNameLen) : ParseNameCall(full_name)
    \/ \E categories \in CategoryLists(MaxCategories) : MapCategoriesCall(categories)
    \/ \E arxiv_paper \in MapperPapers : MapPublicationCall(arxiv_paper)
    \/ \E v \in ArxivIdInputs \cup {NoneText} : ArxivIdFormatCall(v)
    \/ \E arxiv_id \in ArxivIdInputs : CleanArxivIdCall(arxiv_id)
    \/ \E xml_content \in Pages : ParseResponseCall(xml_content)

SpecCalls == InitOn({EmptyDatabase}) /\ [][NextCalls]_vars

\* C24: name parsing. For every name _parse_name returns a pair (given names,
\* surname): the surname is the last whitespace-delimited token and the given
\* names are the other tokens joined by single spaces; a name of one token
\* gives ('', token) and a name without a token gives ('', '').
C24_ParseName ==
    call.op = "_parse_name" =>
       /\ Len(call.result) = 2
       /\ \E tokens \in {SplitWhitespace(call.args[1])} :
             IF tokens = <<>> THEN call.result = << <<>>, <<>> >>
             ELSE /\ call.result[2] = tokens[Len(tokens)]
                  /\ call.result[1] = JoinSpace(SubSeq(tokens, 1, Len(tokens) - 1))

\* the labels of the codes of a list that the lookup table has, in the order
\* of the list
RECURSIVE LabelsOf(_)
LabelsOf(categories) ==
    IF categories = <<>> THEN <<>>
    ELSE (IF Head(categories) \in DOMAIN CATEGORY_MAPPING
          THEN <<CATEGORY_MAPPING[Head(categories)]>> ELSE <<>>)
         \o LabelsOf(Tail(categories))

\* the position where a label occurs first in a sequence
FirstAt(seq, x) == CHOOSE i \in DOMAIN seq : seq[i] = x /\ \A k \in 1..(i - 1) : seq[k] # x

\* the general part of C25: no label twice, the labels of the known codes and
\* no others, in order of first occurrence
NoDuplicatesInFirstSeenOrder(categories, themes) ==
    /\ \A i, j \in DOMAIN themes : themes[i] = themes[j] => i = j
    /\ {themes[i] : i \in DOMAIN themes} =
          {LabelsOf(categories)[k] : k \in DOMAIN LabelsOf(categories)}
    /\ \A i, j \in DOMAIN themes :
          i < j => FirstAt(LabelsOf(categories), themes[i])
                      < FirstAt(LabelsOf(categories), themes[j])

\* C25 as stated: map_categories(['cs.LG', 'stat.ML', 'cs.LG']) is the list
\* ['Machine Learning'], with that label once; and for every list of codes
\* the result has no label twice, keeps the labels in order of first
\* occurrence and drops the codes the lookup table does not have.
C25_CategoryMapping ==
    call.op = "map_categories" =>
       /\ call.args[1] = <<"cs.LG", "stat.ML", "cs.LG">> =>
             call.result = <<"Machine Learning">>
       /\ NoDuplicatesInFirstSeenOrder(call.args[1], call.result)

\* C25, amended: category mapping. map_categories(['cs.LG', 'stat.ML',
\* 'cs.LG']) is the list ['Machine Learning', 'Statistical Machine Learning'],
\* which has 'Machine Learning' once; and for every list of codes the result
\* has no label twice, keeps the labels in order of first occurrence and
\* drops the codes the lookup table does not have.
C25_CategoryMappingAmended ==
    call.op = "map_categories" =>
       /\ call.args[1] = <<"cs.LG", "stat.ML", "cs.LG">> =>
             call.result = <<"Machine Learning", "Statistical Machine Learning">>
       /\ NoDuplicatesInFirstSeenOrder(call.args[1], call.result)

\* the call of the example: the repeated code is mapped once, after it comes
\* the label of stat.ML
C25_Witness ==
    /\ call.op = "map_categories"
    /\ call.args[1] = <<"cs.LG", "stat.ML", "cs.LG">>
    /\ Len(call.result) = 2
    /\ call.result[1] = "Machine Learning"

\* '10.48550/arXiv.' followed by the id, written out for the ids of the papers
SynthesizedDoi(id) ==
    CASE id = "2401.00001" -> "10.48550/arXiv.2401.00001"
      [] id = "2401.00002" -> "10.48550/arXiv.2401.00002"

\* C26: DOI synthesis. When ArxivToPublicationMapper.map returns, a supplied
\* DOI is in the record unchanged; a paper without DOI that has an external
\* id gets the DOI '10.48550/arXiv.' followed by the id; a paper with neither
\* gets a null DOI; and the record has citation count 0, type 'preprint' and
\* status 'pending_enrichment'.
C26_DoiSynthesis ==
    (call.op = "ArxivToPublicationMapper.map" /\ call.result[1] = "dict") =>
       /\ call.args[1].doi # None => call.result[2].doi = call.args[1].doi
       /\ (call.args[1].doi = None /\ call.args[1].id \notin {None, ""}) =>
             call.result[2].doi = SynthesizedDoi(call.args[1].id)
       /\ (call.args[1].doi = None /\ call.args[1].id \in {None, ""}) =>
             call.result[2].doi = None
       /\ call.result[2].nombre_citations = 0
       /\ call.result[2].type_publication = "preprint"
       /\ call.result[2].status = "pending_enrichment"

\* a paper without DOI whose id is 2401.00002 was mapped, and its DOI was made
\* from the id
C26_Witness ==
    /\ call.op = "ArxivToPublicationMapper.map"
    /\ call.result[1] = "dict"
    /\ call.args[1].doi = None
    /\ call.args[1].id = Id2
    /\ call.result[2].doi = "10.48550/arXiv.2401.00002"
    /\ call.result[2].arxiv_id = Id2

\* C27: arXiv id normalization. Where an arXiv id is stored (the schema
\* validator) and where it is used for lookup (get_paper_by_arxiv_id), an id
\* given with the prefix 'arXiv:' or with the prefix 'arxiv:' loses the
\* prefix, and a bare id stays as it is.
C27_ArxivIdNormalization ==
    call.op \in {"arxiv_id_format", "get_paper_by_arxiv_id"} =>
       \A bare \in BareIds :
          call.args[1] \in {bare, PrefixArXiv \o bare, PrefixArxiv \o bare}
             => call.result = bare

\* the entries of a page whose children all have text where the code reads it
ParsingEntries(entries) ==
    {i \in DOMAIN entries :
        NoneText \notin {entries[i].id, entries[i].title, entries[i].summary}}

\* how many of the first i entries parse
ParsedUpTo(entries, i) == Cardinality({k \in ParsingEntries(entries) : k <= i})

\* C28: tolerant page parsing. For a well-formed page _parse_response returns
\* the papers, never an exception: one record per entry that parses, in the
\* order of the entries, each the record of its entry; the entries whose
\* parsing raises are left out.
C28_TolerantPageParsing ==
    (call.op = "_parse_response" /\ call.args[1].well_formed) =>
       /\ call.result[1] = "papers"
       /\ Len(call.result[2]) = Cardinality(ParsingEntries(call.args[1].entries))
       /\ \A i \in ParsingEntries(call.args[1].entries) :
             call.result[2][ParsedUpTo(call.args[1].entries, i)] =
                _parse_entry(call.args[1].entries[i])[1]

\* a page of three entries whose second is malformed: the first and the third
\* are returned, in this order
C28_Witness ==
    /\ call.op = "_parse_response"
    /\ call.args[1].well_formed
    /\ Len(call.args[1].entries) = 3
    /\ ParsingEntries(call.args[1].entries) = {1, 3}
    /\ Len(call.result[2]) = 2
    /\ call.result[2][1].id = <<"1">>
    /\ call.result[2][2].id = <<"2">>


\* the outcome counters of the run
Outcomes(s) == s.papers_created + s.papers_updated + s.papers_skipped + s.errors

\* C29: stats accounting. At the end of every run that returns, each collected
\* paper has been counted in exactly one outcome counter: papers_created +
\* papers_updated + papers_skipped + errors = papers_collected, also when a
\* paper failed after its publication was inserted or merged.
C29_StatsAccounting ==
    (last.op = "return" /\ run_result = "stats") =>
        Outcomes(stats) = stats.papers_collected


\* C30: per-paper atomicity. When _process_paper counts a paper in errors, no
\* row written for that paper is persisted: the committed tables are those of
\* before the paper, the session's transaction holds no row beyond them that
\* the commit of a later paper would persist, nothing is left pending, and the
\* session is active, so that later papers can still be loaded.
C30_PerPaperAtomicity ==
    [][ (last'.op = "process" /\ stats'.errors = stats.errors + 1) =>
          /\ committed' = committed
          /\ tx' = committed'
          /\ pending' = <<>>
          /\ session' = "active"
      ]_vars

====
